---------------------------- MODULE Spec2Model ----------------------------
(***************************************************************************)
(* Model of the ultracode barcode decoder (Rust).  The QR v1 path is       *)
(* modelled here: GF(256) arithmetic and Reed-Solomon (src/src/qr/rs.rs),  *)
(* the BCH(15,5) format word (src/src/qr/format.rs), the function-module   *)
(* predicate and the zig-zag walk (src/src/qr/data.rs), the synthesizer    *)
(* (src/src/qr/encode.rs) and the decoding pipeline (src/src/api.rs).      *)
(*                                                                         *)
(* Rust vectors are TLA+ sequences; a Rust index i is the TLA+ index i+1.  *)
(* A Rust panic (index out of range) is modelled as the value Panic, which *)
(* every caller propagates.                                                *)
(***************************************************************************)
EXTENDS Integers, Sequences, FiniteSets, TLC

VARIABLES rs, fmt, walk, qr, scan

vars == <<rs, fmt, walk, qr, scan>>

---------------------------------------------------------------------------
(* Bit operations on unsigned integers.                                    *)

RECURSIVE XorRec(_, _)
XorRec(a, b) ==
    IF a = 0 THEN b
    ELSE IF b = 0 THEN a
    ELSE (((a % 2) + (b % 2)) % 2) + 2 * XorRec(a \div 2, b \div 2)

XorNib == [a \in 0..15 |-> [b \in 0..15 |-> XorRec(a, b)]]

\* a ^ b on bytes, tabulated.
XorTab ==
    [a \in 0..255 |-> [b \in 0..255 |->
        16 * XorNib[a \div 16][b \div 16] + XorNib[a % 16][b % 16]]]

\* a ^ b on values of up to 16 bits, by bytes.
Xor(a, b) ==
    256 * XorTab[(a \div 256) % 256][(b \div 256) % 256] + XorTab[a % 256][b % 256]

\* 1 << n for n in 0..16
Pow2(n) ==
    <<1, 2, 4, 8, 16, 32, 64, 128, 256, 512, 1024, 2048, 4096, 8192, 16384,
      32768, 65536>>[n + 1]

\* (v >> i) & 1
Bit(v, i) == (v \div Pow2(i)) % 2

RECURSIVE OnesRec(_)
OnesRec(v) == IF v = 0 THEN 0 ELSE (v % 2) + OnesRec(v \div 2)

OnesTab == [a \in 0..255 |-> OnesRec(a)]

\* u16::count_ones, by bytes.
count_ones(v) == OnesTab[(v \div 256) % 256] + OnesTab[v % 256]

\* Rust index i of vector v.
At(v, i) == v[i + 1]

Zeros(n) == [i \in 1..n |-> 0]

---------------------------------------------------------------------------
(* A panicking computation.                                                *)

Panic == [ok |-> FALSE, v |-> <<>>]
Val(x) == [ok |-> TRUE, v |-> x]

---------------------------------------------------------------------------
(* GF(256), primitive polynomial 0x11D (rs.rs).                            *)

GF_PRIM == 285
GF_GEN == 2

gf_add(a, b) == XorTab[a][b]

\* One iteration of gf_mul's loop "while bb != 0" on st = (res, aa, bb);
\* it leaves st alone once bb = 0.
gf_mul_round(st) ==
    IF st.bb = 0 THEN st
    ELSE LET carry == (st.aa \div 128) % 2 # 0
             sh == (st.aa * 2) % 256
         IN  [res |-> IF st.bb % 2 # 0 THEN XorTab[st.res][st.aa % 256] ELSE st.res,
              aa |-> IF carry THEN Xor(sh, GF_PRIM) ELSE sh,
              bb |-> st.bb \div 2]

gf_mul_round2(st) == gf_mul_round(gf_mul_round(st))

gf_mul_round4(st) == gf_mul_round2(gf_mul_round2(st))

\* bb is a byte: the loop ends within 8 iterations.
gf_mul_loop(a, b) ==
    gf_mul_round4(gf_mul_round4([res |-> 0, aa |-> a, bb |-> b])).res

\* gf_mul tabulated once; every entry is computed by the loop above.
GfMulTab == [a \in 0..255 |-> [b \in 0..255 |-> gf_mul_loop(a, b)]]

gf_mul(a, b) == GfMulTab[a][b]

RECURSIVE gf_pow_loop(_, _, _)
gf_pow_loop(acc, base, exp) ==
    IF exp = 0 THEN acc
    ELSE gf_pow_loop(IF exp % 2 # 0 THEN gf_mul(acc, base) ELSE acc,
                     gf_mul(base, base), exp \div 2)

\* Rust's % truncates toward zero; e is never negative at the call sites,
\* the e < 0 branch is kept as written.
gf_pow(a, e) ==
    IF e = 0 THEN 1
    ELSE IF a = 0 THEN 0
    ELSE LET e1 == IF e >= 0 THEN e % 255 ELSE 0 - ((0 - e) % 255)
             e2 == IF e1 < 0 THEN e1 + 255 ELSE e1
         IN  gf_pow_loop(1, a, e2)

gf_inv(a) == gf_pow(a, 254)

---------------------------------------------------------------------------
(* Reed-Solomon encoder (rs.rs).                                           *)

\* One round of generator_poly's outer loop: ng = g * (x + a), index = power.
generator_poly_step(g, a) ==
    SubSeq([j \in 1..(Len(g) + 1) |->
               gf_add(IF j <= Len(g) THEN gf_mul(g[j], a) ELSE 0,
                      IF j >= 2 THEN g[j - 1] ELSE 0)],
           1, Len(g) + 1)

\* The loop "for i in 0..ec_len", on the loop state st = (i, g).
RECURSIVE generator_poly_loop(_, _)
generator_poly_loop(st, ec_len) ==
    IF st.i >= ec_len THEN st.g
    ELSE generator_poly_loop(
             [i |-> st.i + 1, g |-> generator_poly_step(st.g, gf_pow(GF_GEN, st.i))],
             ec_len)

\* ec_len + 1 coefficients.
generator_poly(ec_len) == generator_poly_loop([i |-> 0, g |-> <<1>>], ec_len)

\* The body of rs_ec_bytes' loop for one data byte d.  It yields Panic
\* where the code indexes rem outside 0..ec_len-1: rem[0] when ec_len = 0,
\* and rem[i] for i up to gen.len()-1 when coef != 0.
rs_ec_step(rem, gen, d) ==
    IF Len(rem) = 0 THEN Panic
    ELSE LET ec_len == Len(rem)
             coef == gf_add(d, rem[1])
             shifted == [i \in 1..ec_len |-> IF i < ec_len THEN rem[i + 1] ELSE 0]
         IN  IF coef = 0 THEN Val(shifted)
             ELSE IF Len(gen) > ec_len THEN Panic
             ELSE Val([i \in 1..ec_len |->
                        IF i <= Len(gen)
                        THEN gf_add(shifted[i], gf_mul(coef, gen[i]))
                        ELSE shifted[i]])

RECURSIVE rs_ec_loop(_, _, _, _)
rs_ec_loop(rem, gen, data, k) ==
    IF k > Len(data) THEN Val(rem)
    ELSE LET r == rs_ec_step(rem, gen, data[k])
         IN  IF r.ok THEN rs_ec_loop(r.v, gen, data, k + 1) ELSE Panic

\* rs_ec_bytes(data, ec_len): Val(ec bytes) or Panic.
rs_ec_bytes(data, ec_len) ==
    rs_ec_loop(Zeros(ec_len), generator_poly(ec_len), data, 1)

---------------------------------------------------------------------------
(* Reed-Solomon decoder (rs.rs).                                           *)

\* The inner loop "for i in 0..n" of compute_syndromes, on the loop state
\* st = (i, acc).
RECURSIVE syndrome_acc(_, _, _)
syndrome_acc(codewords, a_k, st) ==
    IF st.i >= Len(codewords) THEN st.acc
    ELSE syndrome_acc(codewords, a_k,
             [i |-> st.i + 1,
              acc |-> gf_add(st.acc, gf_mul(At(codewords, st.i),
                                 gf_pow(a_k, Len(codewords) - 1 - st.i)))])

\* S_k = C(alpha^k), k = 0..ec_len-1.
compute_syndromes(codewords, ec_len) ==
    [k1 \in 1..ec_len |-> syndrome_acc(codewords, gf_pow(GF_GEN, k1 - 1), [i |-> 0, acc |-> 0])]

RECURSIVE trim_leading_zeros(_)
trim_leading_zeros(v) ==
    IF Len(v) > 1 /\ v[1] = 0 THEN trim_leading_zeros(Tail(v)) ELSE v

poly_scale(p, s) ==
    IF s = 0 THEN <<0>> ELSE [i \in 1..Len(p) |-> gf_mul(p[i], s)]

Max(a, b) == IF a >= b THEN a ELSE b

\* Both operands are aligned at their last element.
poly_add(a, b) ==
    LET n == Max(Len(a), Len(b))
        out == [i1 \in 1..n |->
                  LET i == i1 - 1
                      ai == IF i + Len(a) >= n THEN At(a, i + Len(a) - n) ELSE 0
                      bi == IF i + Len(b) >= n THEN At(b, i + Len(b) - n) ELSE 0
                  IN  gf_add(ai, bi)]
    IN  trim_leading_zeros(out)

RECURSIVE poly_mul_coef(_, _, _, _, _)
\* out[k] accumulated over i = from..a.len()-1 (Rust indices).
poly_mul_coef(a, b, k, i, acc) ==
    IF i >= Len(a) THEN acc
    ELSE LET j == k - i
             term == IF j >= 0 /\ j < Len(b) THEN gf_mul(At(a, i), At(b, j)) ELSE 0
         IN  poly_mul_coef(a, b, k, i + 1, gf_add(acc, term))

poly_mul(a, b) ==
    trim_leading_zeros([k1 \in 1..(Len(a) + Len(b) - 1) |->
                           poly_mul_coef(a, b, k1 - 1, 0, 0)])

poly_derivative(p) ==
    IF Len(p) <= 1 THEN <<0>>
    ELSE LET deg == Len(p) - 1
             odd == SelectSeq([i1 \in 1..deg |-> <<p[i1], deg - (i1 - 1)>>],
                              LAMBDA e : e[2] % 2 = 1)
         IN  trim_leading_zeros([i \in 1..Len(odd) |-> odd[i][1]])

RECURSIVE poly_eval_loop(_, _, _, _)
poly_eval_loop(p, x, i, y) ==
    IF i > Len(p) THEN y
    ELSE poly_eval_loop(p, x, i + 1, gf_add(gf_mul(y, x), p[i]))

poly_eval(p, x) == poly_eval_loop(p, x, 1, 0)

\* The discrepancy loop of berlekamp_massey at step n:
\* delta ^= c[i] * synd[n - i] for i = 1..l.  c[i] is an index into a vector
\* that poly_add has trimmed: it is out of range when i >= c.len().
RECURSIVE bm_delta(_, _, _, _, _, _)
bm_delta(c, synd, n, l, i, delta) ==
    IF i > l THEN Val(delta)
    ELSE IF i >= Len(c) \/ n - i < 0 \/ n - i >= Len(synd) THEN Panic
    ELSE bm_delta(c, synd, n, l, i + 1,
                  gf_add(delta, gf_mul(At(c, i), At(synd, n - i))))

\* The update of berlekamp_massey's loop at step n for a discrepancy delta
\* (the branches "delta != 0" and "else"), on the state st = (c, b, l, m).
bm_update(st, n, delta) ==
    IF delta # 0
    THEN IF 2 * st.l <= n
         THEN [c |-> poly_add(st.c, Zeros(st.m) \o poly_scale(st.b, delta)),
               b |-> poly_scale(st.c, gf_inv(delta)),
               l |-> n + 1 - st.l, m |-> 1]
         ELSE [c |-> poly_add(st.c, Zeros(st.m) \o poly_scale(st.b, delta)),
               b |-> st.b, l |-> st.l, m |-> st.m + 1]
    ELSE [c |-> st.c, b |-> st.b, l |-> st.l, m |-> st.m + 1]

\* The loop "for n in 0..synd.len()"; d is the discrepancy of step n
\* (Val or Panic).
RECURSIVE bm_loop(_, _, _)
RECURSIVE bm_next(_, _, _, _)
bm_next(st, synd, n, d) ==
    IF d.ok THEN bm_loop(bm_update(st, n, d.v), synd, n + 1) ELSE Panic

bm_loop(st, synd, n) ==
    IF n >= Len(synd) THEN Val(st)
    ELSE bm_next(st, synd, n, bm_delta(st.c, synd, n, st.l, 1, At(synd, n)))

\* omega = (c * S) cut to its last l coefficients, trimmed.
bm_omega(c, l, full) ==
    Val([sigma |-> c,
         omega |-> trim_leading_zeros(IF Len(full) > l
                                      THEN SubSeq(full, Len(full) - l + 1, Len(full))
                                      ELSE full)])

bm_finish(r, synd) ==
    IF r.ok THEN bm_omega(r.v.c, r.v.l, poly_mul(r.v.c, synd)) ELSE Panic

\* berlekamp_massey(synd): Val([sigma, omega]) or Panic.
berlekamp_massey(synd) ==
    bm_finish(bm_loop([c |-> <<1>>, b |-> <<1>>, l |-> 0, m |-> 1], synd, 0), synd)

\* Positions j in 0..n-1 with sigma(alpha^{-j}) = 0, ascending.
chien_search(sigma, n) ==
    SelectSeq([j1 \in 1..n |-> j1 - 1],
              LAMBDA j : poly_eval(sigma, gf_inv(gf_pow(GF_GEN, j % 255))) = 0)

forney_error_magnitude(omega, sigma, x) ==
    LET x_inv == gf_inv(x)
        num == poly_eval(omega, x_inv)
        den == poly_eval(poly_derivative(sigma), x_inv)
    IN  IF den = 0 THEN 0 ELSE gf_mul(num, gf_inv(den))

\* cw[idx] ^= err_mag, counting the byte if it changed.
rs_fix_byte(st, idx, err_mag) ==
    [cw |-> [st.cw EXCEPT ![idx + 1] = gf_add(st.cw[idx + 1], err_mag)],
     corrected |-> IF gf_add(st.cw[idx + 1], err_mag) # st.cw[idx + 1]
                   THEN st.corrected + 1 ELSE st.corrected]

\* The Forney loop of rs_correct_codeword_block: st = (cw, corrected).
RECURSIVE rs_apply(_, _, _, _, _)
rs_apply(st, err_pos, k, omega, sigma) ==
    IF k > Len(err_pos) THEN st
    ELSE rs_apply(rs_fix_byte(st, Len(st.cw) - 1 - err_pos[k],
                      forney_error_magnitude(omega, sigma,
                          gf_pow(GF_GEN, (255 - err_pos[k]) % 255))),
                  err_pos, k + 1, omega, sigma)

AllZero(v) == \A i \in 1..Len(v) : v[i] = 0

\* What rs_correct_codeword_block returns ("Ok" with the count of bytes
\* changed, "Err", or "Panic") and the buffer as it is left.
RsRet(r, k, buf) == [res |-> r, n |-> k, cw |-> buf]

\* Step 5: the syndromes of the corrected buffer.
rs_correct_post(fix, post) ==
    IF ~AllZero(post) THEN RsRet("Err", 0, fix.cw)
    ELSE RsRet("Ok", fix.corrected, fix.cw)

rs_correct_fix(fix, ec_len) ==
    rs_correct_post(fix, compute_syndromes(fix.cw, ec_len))

\* Steps 3-4: the error positions, the count check, the Forney loop.
rs_correct_pos(codewords, ec_len, so, err_pos) ==
    IF Len(err_pos) = 0 THEN RsRet("Err", 0, codewords)
    ELSE IF Len(err_pos) > ec_len THEN RsRet("Err", 0, codewords)
    ELSE rs_correct_fix(rs_apply([cw |-> codewords, corrected |-> 0],
                                 err_pos, 1, so.omega, so.sigma), ec_len)

\* Step 2: sigma and omega.
rs_correct_bm(codewords, ec_len, bm) ==
    IF ~bm.ok THEN RsRet("Panic", 0, codewords)
    ELSE rs_correct_pos(codewords, ec_len, bm.v,
                        chien_search(bm.v.sigma, Len(codewords)))

\* Step 1: the syndromes.
rs_correct_synd(codewords, ec_len, synd) ==
    IF AllZero(synd) THEN RsRet("Ok", 0, codewords)
    ELSE rs_correct_bm(codewords, ec_len, berlekamp_massey(synd))

\* a variant that looks at the first syndrome only
rs_correct_first_syndrome(codewords, data_len, ec_len) ==
    IF Len(codewords) # data_len + ec_len \/ ec_len = 0
    THEN RsRet("Err", 0, codewords)
    ELSE IF compute_syndromes(codewords, ec_len)[1] = 0
    THEN RsRet("Ok", 0, codewords)
    ELSE rs_correct_synd(codewords, ec_len, compute_syndromes(codewords, ec_len))

\* a variant that has changed the first byte when it fails
rs_correct_partly(codewords, data_len, ec_len) ==
    IF Len(codewords) # data_len + ec_len \/ ec_len = 0
    THEN RsRet("Err", 0, codewords)
    ELSE IF rs_correct_synd(codewords, ec_len,
                            compute_syndromes(codewords, ec_len)).res = "Err"
    THEN RsRet("Err", 0, [codewords EXCEPT ![1] = gf_add(codewords[1], 1)])
    ELSE rs_correct_synd(codewords, ec_len, compute_syndromes(codewords, ec_len))

rs_correct_codeword_block(codewords, data_len, ec_len) ==
    IF Len(codewords) # data_len + ec_len \/ ec_len = 0
    THEN RsRet("Err", 0, codewords)
    ELSE rs_correct_synd(codewords, ec_len, compute_syndromes(codewords, ec_len))

---------------------------------------------------------------------------
(* The format word: BCH(15,5) and the format mask (format.rs).             *)

\* EcLevel::to_bits2
to_bits2(ec) ==
    CASE ec = "L" -> 1
      [] ec = "M" -> 0
      [] ec = "Q" -> 3
      [] ec = "H" -> 2

\* 0b1_0100_1101_11
BCH15_5_GEN == 1335

\* The literal 0b1010_1000_0001_0010 of format.rs: sixteen binary digits.
FORMAT_MASK == 43026

\* The loop "for shift in (10..=14).rev()" of bch_remainder_15_5.
RECURSIVE bch_remainder_loop(_, _)
bch_remainder_loop(v, shift) ==
    IF shift < 10 THEN v
    ELSE bch_remainder_loop(IF Bit(v, shift) = 1
                            THEN Xor(v, BCH15_5_GEN * Pow2(shift - 10))
                            ELSE v,
                            shift - 1)

bch_remainder_15_5(v) == bch_remainder_loop(v, 14) % 1024

encode_format_word_unmasked(ec, mask_id) ==
    (((to_bits2(ec) * 8) + (mask_id % 8)) * 1024)
        + bch_remainder_15_5(((to_bits2(ec) * 8) + (mask_id % 8)) * 1024)

encode_format_word_masked(ec, mask_id) ==
    Xor(encode_format_word_unmasked(ec, mask_id), FORMAT_MASK)

\* (a ^ b).count_ones() on u16
hamming15(a, b) == count_ones(Xor(a, b))

\* const LEVELS of decode_format_word, in its order.
LEVELS == <<"L", "M", "Q", "H">>

None == [some |-> FALSE]

\* A variant of decode_better that keeps the farther candidate; the round
\* trip C4_FormatRoundTrip does not survive it.
decode_better_farther(best, ec, mask, d) ==
    IF ~best.some THEN [some |-> TRUE, ec |-> ec, mask |-> mask, d |-> d]
    ELSE IF d > best.d THEN [some |-> TRUE, ec |-> ec, mask |-> mask, d |-> d]
    ELSE best

\* The match on best for the candidate (ec, mask) at distance d.
decode_better(best, ec, mask, d) ==
    IF ~best.some THEN [some |-> TRUE, ec |-> ec, mask |-> mask, d |-> d]
    ELSE IF d < best.d THEN [some |-> TRUE, ec |-> ec, mask |-> mask, d |-> d]
    ELSE best

\* The inner loop "for mask in 0u8..8" of decode_format_word for the level
\* ec, on the loop state st = (mask, best).
RECURSIVE decode_format_masks(_, _, _)
decode_format_masks(word, ec, st) ==
    IF st.mask >= 8 THEN st.best
    ELSE decode_format_masks(word, ec,
             [mask |-> st.mask + 1,
              best |-> decode_better(st.best, ec, st.mask,
                           hamming15(word, encode_format_word_masked(ec, st.mask)))])

\* The outer loop "for &ec in &LEVELS", on the loop state st = (i, best).
RECURSIVE decode_format_loop(_, _)
decode_format_loop(word, st) ==
    IF st.i > Len(LEVELS) THEN st.best
    ELSE decode_format_loop(word,
             [i |-> st.i + 1,
              best |-> decode_format_masks(word, LEVELS[st.i],
                                           [mask |-> 0, best |-> st.best])])

\* The final match: the best candidate if its distance is at most 3.
decode_accept(best) == IF best.some /\ best.d <= 3 THEN best ELSE None

decode_format_word(word) ==
    decode_accept(decode_format_loop(word, [i |-> 1, best |-> None]))

\* Coordinates (x, y) of the two format read paths.
FORMAT_READ_PATHS_V1 ==
    << << <<0, 8>>, <<1, 8>>, <<2, 8>>, <<3, 8>>, <<4, 8>>, <<5, 8>>,
          <<7, 8>>, <<8, 8>>,
          <<8, 7>>, <<8, 6>>, <<8, 5>>, <<8, 4>>, <<8, 3>>, <<8, 2>>, <<8, 1>> >>,
       << <<20, 0>>, <<20, 1>>, <<20, 2>>, <<20, 3>>, <<20, 4>>, <<20, 5>>,
          <<20, 6>>, <<20, 7>>,
          <<19, 8>>, <<18, 8>>, <<17, 8>>, <<16, 8>>, <<15, 8>>, <<14, 8>>, <<13, 8>> >> >>

---------------------------------------------------------------------------
(* The synthesizer's own format encoder (encode.rs).                       *)

\* 0b10100110111
BCH_FORMAT_GEN == 1335

\* The literal 0b101010000010010 of encode.rs: fifteen binary digits.
ENC_FORMAT_MASK == 21522

ec_to_bits(ec) ==
    CASE ec = "M" -> 0
      [] ec = "L" -> 1
      [] ec = "H" -> 2
      [] ec = "Q" -> 3

\* The loop "while msb >= 10" of bch15_5_encode.
RECURSIVE bch15_5_loop(_, _)
bch15_5_loop(v, msb) ==
    IF msb < 10 THEN v
    ELSE bch15_5_loop(IF Bit(v, msb) # 0
                      THEN Xor(v, BCH_FORMAT_GEN * Pow2(msb - 10))
                      ELSE v,
                      msb - 1)

bch15_5_encode(info5) == (info5 * 1024) + (bch15_5_loop(info5 * 1024, 14) % 1024)

encode_format_bits(ec, mask_id) ==
    Xor(bch15_5_encode((ec_to_bits(ec) * 8) + (mask_id % 8)), ENC_FORMAT_MASK)

---------------------------------------------------------------------------
(* QR v1 function modules, the walk and the data bits (data.rs).           *)

N1 == 21

\* A variant of GridIndex that reads the grid column by column; the order
\* stated by C9_Extract does not survive it.
GridIndexTransposed(x, y) == (x * N1) + y

\* A grid is a sequence of N1 * N1 booleans; module (x, y) is at the Rust
\* index y * N1 + x.
GridIndex(x, y) == (y * N1) + x

GridAt(grid, x, y) == At(grid, GridIndex(x, y))

\* A variant of is_function_v1 without the timing lines; the counts of
\* C8_FunctionCount do not survive it.
is_function_v1_no_timing(x, y) ==
    \/ (x <= 8 /\ y <= 8)
    \/ (x >= N1 - 8 /\ y <= 8)
    \/ (x <= 8 /\ y >= N1 - 8)

is_function_v1(x, y) ==
    IF \/ (x <= 8 /\ y <= 8)
       \/ (x >= N1 - 8 /\ y <= 8)
       \/ (x <= 8 /\ y >= N1 - 8)
    THEN TRUE
    ELSE IF x = 6 \/ y = 6 THEN TRUE
    ELSE FALSE

\* The coordinates one round of walk_pairs_v1's while loop pushes for the
\* column pair (xx, xx - 1): per row first (xx, y), then (xx - 1, y); the
\* rows run from N1 - 1 down to 0 when upward, from 0 up to N1 - 1 otherwise.
walk_pair(xx, upward) ==
    [i \in 1..(2 * N1) |->
        << IF i % 2 = 1 THEN xx ELSE xx - 1,
           IF upward THEN N1 - 1 - ((i - 1) \div 2) ELSE (i - 1) \div 2 >>]

\* The coordinates pushed for the single column x = 0 after the loop.
walk_single(upward) ==
    [i \in 1..N1 |-> << 0, IF upward THEN N1 - i ELSE i - 1 >>]

RECURSIVE walk_loop(_, _, _)
walk_loop(out, x, upward) ==
    IF x > 0 THEN walk_loop(out \o walk_pair(x, upward), x - 2, ~upward)
    ELSE IF x = 0 THEN out \o walk_single(upward)
    ELSE out

\* walk_pairs_v1(): the whole path.
walk_pairs_v1 == walk_loop(<<>>, N1 - 1, TRUE)

\* The body of extract_data_bits_v1's loop for the coordinate c = (x, y):
\* st = (bits, stop), stop set by the break at 208 bits.
extract_step(st, grid, c) ==
    IF is_function_v1(c[1], c[2]) THEN st
    ELSE [bits |-> Append(st.bits, GridAt(grid, c[1], c[2])),
          stop |-> Len(st.bits) + 1 = 208]

\* The coordinates of a path at which the loop pushes a bit.
NotFunction(c) == ~is_function_v1(c[1], c[2])

\* The loop over the whole path: one bit per coordinate that is not a
\* function module, in path order, cut at 208 bits by the break.
extract_bits_of(grid, coords) ==
    [k \in 1..(IF Len(coords) < 208 THEN Len(coords) ELSE 208) |->
        GridAt(grid, coords[k][1], coords[k][2])]

extract_data_bits_v1(grid) ==
    extract_bits_of(grid, SelectSeq(walk_pairs_v1, NotFunction))

\* A variant of mask_predicate with the column and the row exchanged; the
\* effect stated by C11_Unmask does not survive it.
mask_predicate_exchanged(mask_id, x, y) ==
    CASE mask_id % 8 = 0 -> ((y + x) % 2) = 0
      [] mask_id % 8 = 1 -> (x % 2) = 0
      [] mask_id % 8 = 2 -> (y % 3) = 0
      [] mask_id % 8 = 3 -> ((y + x) % 3) = 0
      [] mask_id % 8 = 4 -> (((x \div 2) + (y \div 3)) % 2) = 0
      [] mask_id % 8 = 5 -> (((y * x) % 2) + ((y * x) % 3)) = 0
      [] mask_id % 8 = 6 -> ((((y * x) % 2) + ((y * x) % 3)) % 2) = 0
      [] mask_id % 8 = 7 -> ((((y + x) % 2) + ((y * x) % 3)) % 2) = 0

\* mask_predicate(mask_id, x, y)
mask_predicate(mask_id, x, y) ==
    CASE mask_id % 8 = 0 -> ((y + x) % 2) = 0
      [] mask_id % 8 = 1 -> (y % 2) = 0
      [] mask_id % 8 = 2 -> (x % 3) = 0
      [] mask_id % 8 = 3 -> ((y + x) % 3) = 0
      [] mask_id % 8 = 4 -> (((y \div 2) + (x \div 3)) % 2) = 0
      [] mask_id % 8 = 5 -> (((y * x) % 2) + ((y * x) % 3)) = 0
      [] mask_id % 8 = 6 -> ((((y * x) % 2) + ((y * x) % 3)) % 2) = 0
      [] mask_id % 8 = 7 -> ((((y + x) % 2) + ((y * x) % 3)) % 2) = 0

---------------------------------------------------------------------------
(* The synthesizer (encode.rs).  A text is the sequence of its bytes.      *)

mask_hit(mask_id, x, y) ==
    CASE mask_id = 0 -> ((x + y) % 2) = 0
      [] mask_id = 1 -> (y % 2) = 0
      [] mask_id = 2 -> (x % 3) = 0
      [] mask_id = 3 -> ((x + y) % 3) = 0
      [] mask_id = 4 -> (((y \div 2) + (x \div 3)) % 2) = 0
      [] mask_id = 5 -> (((x * y) % 2) + ((x * y) % 3)) = 0
      [] mask_id = 6 -> ((((x * y) % 2) + ((x * y) % 3)) % 2) = 0
      [] mask_id = 7 -> ((((x + y) % 2) + ((x * y) % 3)) % 2) = 0
      [] OTHER -> FALSE

\* The bit stream before the terminator: mode 0100, the length on 8 bits,
\* the payload bytes, each most significant bit first.
synth_header_bits(bytes) ==
    <<FALSE, TRUE, FALSE, FALSE>>
        \o [i \in 1..8 |-> Bit(Len(bytes), 8 - i) = 1]
        \o [i \in 1..(8 * Len(bytes)) |->
               Bit(bytes[((i - 1) \div 8) + 1], 7 - ((i - 1) % 8)) = 1]

\* The terminator: up to 4 zero bits while the 152 bits are not filled.
synth_terminated(bits) ==
    bits \o [i \in 1..(IF Len(bits) >= 152 THEN 0
                       ELSE IF 152 - Len(bits) < 4 THEN 152 - Len(bits)
                       ELSE 4) |-> FALSE]

\* Zero bits up to the next byte boundary.
synth_byte_aligned(bits) ==
    bits \o [i \in 1..((8 - (Len(bits) % 8)) % 8) |-> FALSE]

\* One chunk of 8 bits folded into a byte, most significant bit first.
RECURSIVE bits_value(_, _, _, _)
bits_value(bits, i, n, v) ==
    IF n = 0 THEN v
    ELSE bits_value(bits, i + 1, n - 1, (2 * v) + (IF At(bits, i) THEN 1 ELSE 0))

\* The bytes of the chunks, then the pad codewords 0xEC / 0x11 up to 19.
synth_data_cw(bits) ==
    [i \in 1..(IF Len(bits) \div 8 < 19 THEN 19 ELSE Len(bits) \div 8) |->
        IF i <= Len(bits) \div 8 THEN bits_value(bits, 8 * (i - 1), 8, 0)
        ELSE IF (i - 1) % 2 = 0 THEN 236 ELSE 17]

data_codewords(bytes) ==
    synth_data_cw(synth_byte_aligned(synth_terminated(synth_header_bits(bytes))))

finder_module(dx, dy) ==
    \/ dx = 0 \/ dx = 6 \/ dy = 0 \/ dy = 6
    \/ (dx >= 2 /\ dx <= 4 /\ dy >= 2 /\ dy <= 4)

draw_finder(grid, ox, oy) ==
    [i \in 1..(N1 * N1) |->
        IF /\ ((i - 1) % N1) >= ox /\ ((i - 1) % N1) < ox + 7
           /\ ((i - 1) \div N1) >= oy /\ ((i - 1) \div N1) < oy + 7
        THEN finder_module(((i - 1) % N1) - ox, ((i - 1) \div N1) - oy)
        ELSE grid[i]]

\* The loop over x writing the timing row y = 6.
timing_row(grid) ==
    [i \in 1..(N1 * N1) |->
        IF (i - 1) \div N1 = 6 /\ (i - 1) % N1 # 6 THEN (((i - 1) % N1) % 2) = 0
        ELSE grid[i]]

\* The loop over y writing the timing column x = 6.
timing_col(grid) ==
    [i \in 1..(N1 * N1) |->
        IF (i - 1) % N1 = 6 /\ (i - 1) \div N1 # 6 THEN (((i - 1) \div N1) % 2) = 0
        ELSE grid[i]]

dark_module(grid) == [grid EXCEPT ![GridIndex(8, 13) + 1] = TRUE]

\* The grid after the finders, the timing lines and the dark module.
function_patterns ==
    dark_module(timing_col(timing_row(
        draw_finder(draw_finder(draw_finder([i \in 1..(N1 * N1) |-> FALSE],
                                            0, 0), 14, 0), 0, 14))))

\* The calls of put for copy A, in order: (x, 8) for x in 0..=8 except 6,
\* then (8, y) for y from 8 down to 0 except 8 and 6.
CopyAKeepX(c) == c[1] # 6

CopyAKeepY(c) == c[2] # 8 /\ c[2] # 6

format_copy_a ==
    SelectSeq([k \in 1..9 |-> <<k - 1, 8>>], CopyAKeepX)
        \o SelectSeq([k \in 1..9 |-> <<8, 9 - k>>], CopyAKeepY)

\* The calls of put for copy B: (x, 8) for x from 20 down to 13, then
\* (8, y) for y from 20 down to 14.
format_copy_b ==
    [k \in 1..8 |-> <<21 - k, 8>>] \o [k \in 1..7 |-> <<8, 21 - k>>]

\* The closure put, k-th call (from 1) on a copy of fmt: bit 14 of bits15 is
\* written after bits15 (a u16) was shifted left by one k - 1 times.
put_bit(bits15, k) == Bit((bits15 * Pow2(k - 1)) % 65536, 14) # 0

\* The last call of put along coords that writes the Rust index i, or 0.
put_last(coords, i) ==
    IF \E k \in 1..Len(coords) : GridIndex(coords[k][1], coords[k][2]) = i
    THEN CHOOSE k \in 1..Len(coords) :
             /\ GridIndex(coords[k][1], coords[k][2]) = i
             /\ \A j \in (k + 1)..Len(coords) :
                    GridIndex(coords[j][1], coords[j][2]) # i
    ELSE 0

\* The grid after put was called along coords, one call per coordinate.
put_format(grid, coords, bits15) ==
    [i \in 1..(N1 * N1) |->
        IF put_last(coords, i - 1) > 0 THEN put_bit(bits15, put_last(coords, i - 1))
        ELSE grid[i]]

write_format(grid, fmt15) ==
    put_format(put_format(grid, format_copy_a, fmt15), format_copy_b, fmt15)

\* The coordinates of the walk that take a data bit, in walk order.
DataCoords == SelectSeq(walk_pairs_v1, NotFunction)

\* For the Rust index i of a module, the rank (from 1) of the module among
\* DataCoords, or 0 for a module the placement loop skips.
DataRank ==
    [i \in 0..((N1 * N1) - 1) |->
        IF \E k \in 1..Len(DataCoords) : GridIndex(DataCoords[k][1], DataCoords[k][2]) = i
        THEN CHOOSE k \in 1..Len(DataCoords) :
                 GridIndex(DataCoords[k][1], DataCoords[k][2]) = i
        ELSE 0]

\* Bit r (from 1) of bit_iter: the bytes of all_cw, most significant first.
cw_bit(all_cw, r) == Bit(all_cw[((r - 1) \div 8) + 1], 7 - ((r - 1) % 8)) # 0

\* The placement loop: the r-th module of the walk that is not a function
\* module takes bit r, XORed with the mask, while bit_iter has bits.
place_data(grid, all_cw, mask_id) ==
    [i \in 1..(N1 * N1) |->
        IF DataRank[i - 1] > 0 /\ DataRank[i - 1] <= 8 * Len(all_cw)
        THEN cw_bit(all_cw, DataRank[i - 1])
                 # mask_hit(mask_id, (i - 1) % N1, (i - 1) \div N1)
        ELSE grid[i]]

\* Steps 3 and 4 of the synthesizer for the codewords all_cw.
synth_grid(all_cw, mask_id) ==
    place_data(write_format(function_patterns, encode_format_bits("L", mask_id)),
               all_cw, mask_id)

\* Step 2 onwards, given the data codewords and their EC bytes.
synth_with_ec(data_cw, ec, mask_id) ==
    IF ~ec.ok THEN Panic ELSE Val(synth_grid(data_cw \o ec.v, mask_id))

synth_from_cw(data_cw, mask_id) ==
    synth_with_ec(data_cw, rs_ec_bytes(data_cw, 7), mask_id)

\* synthesize_qr_v1_from_text: the module grid of the image returned (the
\* image is this grid, each module a square, inside a white quiet zone),
\* or a panic.
synthesize_qr_v1_from_text(bytes, mask_id) ==
    IF Len(bytes) > 17 THEN Panic
    ELSE synth_from_cw(data_codewords(bytes), mask_id)

---------------------------------------------------------------------------
(* Byte mode (bytes.rs).                                                   *)

\* A continuation byte 10xxxxxx at Rust index i of bytes.
Utf8Cont(bytes, i) == i < Len(bytes) /\ At(bytes, i) >= 128 /\ At(bytes, i) <= 191

\* At(bytes, i) within lo..hi.
Utf8In(bytes, i, lo, hi) == i < Len(bytes) /\ At(bytes, i) >= lo /\ At(bytes, i) <= hi

\* String::from_utf8(bytes).is_ok(): well-formed UTF-8 from Rust index i on.
RECURSIVE utf8_valid(_, _)
utf8_valid(bytes, i) ==
    IF i >= Len(bytes) THEN TRUE
    ELSE IF At(bytes, i) < 128 THEN utf8_valid(bytes, i + 1)
    ELSE IF At(bytes, i) >= 194 /\ At(bytes, i) <= 223
         THEN Utf8Cont(bytes, i + 1) /\ utf8_valid(bytes, i + 2)
    ELSE IF At(bytes, i) = 224
         THEN Utf8In(bytes, i + 1, 160, 191) /\ Utf8Cont(bytes, i + 2)
              /\ utf8_valid(bytes, i + 3)
    ELSE IF At(bytes, i) = 237
         THEN Utf8In(bytes, i + 1, 128, 159) /\ Utf8Cont(bytes, i + 2)
              /\ utf8_valid(bytes, i + 3)
    ELSE IF At(bytes, i) >= 225 /\ At(bytes, i) <= 239
         THEN Utf8Cont(bytes, i + 1) /\ Utf8Cont(bytes, i + 2)
              /\ utf8_valid(bytes, i + 3)
    ELSE IF At(bytes, i) = 240
         THEN Utf8In(bytes, i + 1, 144, 191) /\ Utf8Cont(bytes, i + 2)
              /\ Utf8Cont(bytes, i + 3) /\ utf8_valid(bytes, i + 4)
    ELSE IF At(bytes, i) >= 241 /\ At(bytes, i) <= 243
         THEN Utf8Cont(bytes, i + 1) /\ Utf8Cont(bytes, i + 2)
              /\ Utf8Cont(bytes, i + 3) /\ utf8_valid(bytes, i + 4)
    ELSE IF At(bytes, i) = 244
         THEN Utf8In(bytes, i + 1, 128, 143) /\ Utf8Cont(bytes, i + 2)
              /\ Utf8Cont(bytes, i + 3) /\ utf8_valid(bytes, i + 4)
    ELSE FALSE

Some(x) == [some |-> TRUE, v |-> x]

\* String::from_utf8(bytes).ok()
from_utf8(bytes) == IF utf8_valid(bytes, 0) THEN Some(bytes) ELSE None

\* The payload read by the last loop: len bytes from bit offset + 12.
parse_payload(b, offset, len) ==
    from_utf8([k \in 1..len |-> bits_value(b, offset + 12 + (8 * (k - 1)), 8, 0)])

\* After the mode was accepted: the length and its two checks; b is the
\* slice bits[..152], so r.left() is 152 - (offset + 12).
parse_length(b, offset, len) ==
    IF len > 17 THEN None
    ELSE IF 152 - (offset + 12) < len * 8 THEN None
    ELSE parse_payload(b, offset, len)

parse_byte_mode_bits_v1_l_from_offset(bits, offset) ==
    IF Len(bits) < 152 \/ offset + 12 > 152 THEN None
    ELSE IF bits_value(bits, offset, 4, 0) # 4 THEN None
    ELSE parse_length(SubSeq(bits, 1, 152), offset,
                      bits_value(bits, offset + 4, 8, 0))

parse_byte_mode_bits_v1_l(bits) ==
    IF Len(bits) < 152 THEN None
    ELSE parse_byte_mode_bits_v1_l_from_offset(bits, 0)

---------------------------------------------------------------------------
(* The QR branch of the pipeline (api.rs), from the sampled grid on.       *)

\* The 15 modules of a read path as a word, the first module of the path
\* the most significant bit.
RECURSIVE read_format_word(_, _, _, _)
read_format_word(grid, path, k, v) ==
    IF k > Len(path) THEN v
    ELSE read_format_word(grid, path, k + 1,
             (2 * v) + (IF GridAt(grid, path[k][1], path[k][2]) THEN 1 ELSE 0))

\* The result for the copy src_index (0 or 1).
from_copy(r, src_index) ==
    IF r.some
    THEN [some |-> TRUE, ec |-> r.ec, mask |-> r.mask, d |-> r.d, src |-> src_index]
    ELSE None

\* The better of the two copies by distance, the first copy on a tie.
better_copy(a, b) ==
    IF a.some /\ (~b.some \/ a.d <= b.d) THEN from_copy(a, 0) ELSE from_copy(b, 1)

\* Both copies read along FORMAT_READ_PATHS_V1 and decoded.
decode_v1_format_from_matrix(grid) ==
    better_copy(
        decode_format_word(read_format_word(grid, FORMAT_READ_PATHS_V1[1], 1, 0)),
        decode_format_word(read_format_word(grid, FORMAT_READ_PATHS_V1[2], 1, 0)))

unmask_matrix_v1(grid, mask_id) ==
    [i \in 1..(N1 * N1) |->
        IF ~is_function_v1((i - 1) % N1, (i - 1) \div N1)
        THEN grid[i] # mask_predicate(mask_id, (i - 1) % N1, (i - 1) \div N1)
        ELSE grid[i]]

\* Step 8: 26 codewords from the 208 bits, most significant bit first.
pack_codewords(data_bits) ==
    [i \in 1..26 |-> bits_value(data_bits, 8 * (i - 1), 8, 0)]

bytes_to_bits_msb(bytes) ==
    [i \in 1..(8 * Len(bytes)) |->
        Bit(bytes[((i - 1) \div 8) + 1], 7 - ((i - 1) % 8)) # 0]

\* Step 12, in hundredths.
confidence_sum(ec, verify_rs, rs_match, corrected_bytes) ==
    80 + (CASE ec = "L" -> 0 [] ec = "M" -> 2 [] ec = "Q" -> 3 [] ec = "H" -> 5)
       + (IF verify_rs /\ rs_match THEN 10 ELSE 0)
       + (IF corrected_bytes > 0 THEN 5 ELSE 0)

confidence_cap(c) == IF c > 99 THEN 99 ELSE c

confidence(ec, verify_rs, rs_match, corrected_bytes) ==
    confidence_cap(confidence_sum(ec, verify_rs, rs_match, corrected_bytes))

\* (data_len, ec_len) of the 26 codewords of a v1 symbol per EC level.
EcSplit(level) ==
    CASE level = "L" -> [data_len |-> 19, ec_len |-> 7]
      [] level = "M" -> [data_len |-> 16, ec_len |-> 10]
      [] level = "Q" -> [data_len |-> 13, ec_len |-> 13]
      [] level = "H" -> [data_len |-> 9, ec_len |-> 17]

QrPanic == [res |-> "Panic"]

QrNone == [res |-> "None"]

\* Steps 11 and 12: the symbol returned for the parsed text.
decode_symbol(f, opts, rs_match, corr, text) ==
    IF ~text.some THEN QrNone
    ELSE [res |-> "Some", text |-> text.v, ec |-> f.ec, mask |-> f.mask,
          rs_match |-> IF opts.qr_verify_rs
                       THEN (IF rs_match THEN "true" ELSE "false") ELSE "absent",
          rs_corrected |-> IF corr.res = "Ok" THEN "true" ELSE "false",
          rs_corrected_bytes |-> IF corr.res = "Ok" THEN corr.n ELSE 0,
          confidence |-> confidence(f.ec, opts.qr_verify_rs, rs_match,
                                    IF corr.res = "Ok" THEN corr.n ELSE 0)]

\* Step 10 done: corr is what rs_correct_codeword_block returned and left
\* in the buffer.
decode_corrected(f, opts, rs_match, corr) ==
    IF corr.res = "Panic" THEN QrPanic
    ELSE decode_symbol(f, opts, rs_match, corr,
                       parse_byte_mode_bits_v1_l(bytes_to_bits_msb(corr.cw)))

\* Step 9 done: calc is what rs_ec_bytes returned for the data part.
decode_checked(f, opts, cw, calc) ==
    IF ~calc.ok THEN QrPanic
    ELSE decode_corrected(f, opts,
             opts.qr_verify_rs /\ calc.v = SubSeq(cw, EcSplit(f.ec).data_len + 1, 26),
             rs_correct_codeword_block(cw, EcSplit(f.ec).data_len, EcSplit(f.ec).ec_len))

\* Steps 9 to 12 on the 26 codewords.
decode_codewords(f, opts, cw) ==
    decode_checked(f, opts, cw,
        IF opts.qr_verify_rs
        THEN rs_ec_bytes(SubSeq(cw, 1, EcSplit(f.ec).data_len), EcSplit(f.ec).ec_len)
        ELSE Val(<<>>))

\* Steps 3 to 12 without the whitelist of EC levels.
decode_any_level(grid, opts, f) ==
    IF ~f.some THEN QrNone
    ELSE decode_codewords(f, opts,
             pack_codewords(extract_data_bits_v1(unmask_matrix_v1(grid, f.mask))))

\* Steps 3 to 12 once the format was read: the whitelist, then the data.
decode_with_format(grid, opts, f) ==
    IF ~f.some THEN QrNone
    ELSE IF opts.qr_allowed_ec_levels # {} /\ f.ec \notin opts.qr_allowed_ec_levels
    THEN QrNone
    ELSE decode_codewords(f, opts,
             pack_codewords(extract_data_bits_v1(unmask_matrix_v1(grid, f.mask))))

\* try_decode_qr_v1_all_levels_with_correction, from the sampled grid on.
try_decode_qr_v1(grid, opts) ==
    decode_with_format(grid, opts, decode_v1_format_from_matrix(grid))

---------------------------------------------------------------------------
(* The Reed-Solomon harness: encode a data block, corrupt bytes of the     *)
(* codeword block, correct it.                                             *)

Idle == [pc |-> "idle"]

Levels == {"L", "M", "Q", "H"}


\* Number of bytes of a block that the harness corrupts.
MaxErrors == 1

\* Data blocks tried: all zero, the block of the unit test (i ^ 0xA5),
\* a single 1 in the first or in the last byte.
DataKinds == {"zero", "test", "first", "last"}

DataBlock(kind, len) ==
    [i1 \in 1..len |->
        CASE kind = "zero" -> 0
          [] kind = "test" -> Xor(i1 - 1, 165)
          [] kind = "first" -> IF i1 = 1 THEN 1 ELSE 0
          [] kind = "last" -> IF i1 = len THEN 1 ELSE 0]

\* Nonzero bytes XORed into a codeword.
XorVals == {1, 90, 255}

InitRS ==
    /\ scan = Idle
    /\ rs \in {[pc |-> "start", level |-> lv,
                data |-> DataBlock(k, EcSplit(lv).data_len),
                block |-> <<>>, cw |-> <<>>, errs |-> {}, res |-> "none", n |-> 0] :
               lv \in Levels, k \in DataKinds}
    /\ fmt = Idle
    /\ walk = Idle
    /\ qr = Idle

\* The harness after rs_ec_bytes returned ec (Val or Panic).
RsEncoded(st, ec) ==
    IF ec.ok
    THEN [st EXCEPT !.pc = "encoded", !.block = st.data \o ec.v, !.cw = st.data \o ec.v]
    ELSE [st EXCEPT !.pc = "enc_panic"]

\* ec = rs_ec_bytes(data, ec_len); the block is data followed by ec.
RsEncode ==
    /\ rs.pc = "start"
    /\ rs' = RsEncoded(rs, rs_ec_bytes(rs.data, EcSplit(rs.level).ec_len))
    /\ UNCHANGED <<fmt, walk, qr, scan>>

\* cw[pos] ^= val at a position not corrupted before.
RsCorrupt ==
    /\ rs.pc = "encoded"
    /\ Cardinality(rs.errs) < MaxErrors
    /\ \E pos \in (0..(Len(rs.cw) - 1)) \ rs.errs : \E val \in XorVals :
          rs' = [rs EXCEPT !.cw[pos + 1] = gf_add(rs.cw[pos + 1], val),
                           !.errs = rs.errs \cup {pos}]
    /\ UNCHANGED <<fmt, walk, qr, scan>>

\* The harness after rs_correct_codeword_block returned r.
RsCorrected(st, r) ==
    [st EXCEPT !.pc = IF r.res = "Panic" THEN "dec_panic" ELSE "done",
               !.res = r.res, !.n = r.n, !.cw = r.cw]

\* rs_correct_codeword_block(&mut cw, data_len, ec_len).
RsCorrect ==
    /\ rs.pc = "encoded"
    /\ rs' = RsCorrected(rs, rs_correct_codeword_block(rs.cw,
                 EcSplit(rs.level).data_len, EcSplit(rs.level).ec_len))
    /\ UNCHANGED <<fmt, walk, qr, scan>>

NextRS == RsEncode \/ RsCorrupt \/ RsCorrect

SpecRS == InitRS /\ [][NextRS]_vars

---------------------------------------------------------------------------
(* The data harness: the count of function modules (the loop of the unit   *)
(* test function_mask_counts_v1), the walk built pair by pair, and the     *)
(* extraction of the data bits of a grid, coordinate by coordinate.        *)

\* Grids tried: grid b holds, at index i, bit b of i (b = 0..MaxPlane), so
\* that the grids together tell every index from every other.
MaxPlane == 8

GridPlane(b) == [i1 \in 1..(N1 * N1) |-> Bit(i1 - 1, b) = 1]

WalkStart(pc, grid) ==
    [pc |-> pc, x |-> N1 - 1, upward |-> TRUE, out |-> <<>>, pairs |-> <<>>,
     grid |-> grid, k |-> 0, bits |-> <<>>, stop |-> FALSE, j |-> 0, func |-> 0]

InitData ==
    /\ scan = Idle
    /\ walk \in {WalkStart("count", <<>>)}
                \cup {WalkStart("loop", GridPlane(b)) : b \in 0..MaxPlane}
    /\ rs = Idle
    /\ fmt = Idle
    /\ qr = Idle

\* One step of the test's double loop "for y in 0..N1, for x in 0..N1".
CountStep ==
    /\ walk.pc = "count"
    /\ walk' = IF walk.j = N1 * N1
               THEN [walk EXCEPT !.pc = "counted"]
               ELSE [walk EXCEPT !.j = walk.j + 1,
                                 !.func = IF is_function_v1(walk.j % N1, walk.j \div N1)
                                          THEN walk.func + 1 ELSE walk.func]
    /\ UNCHANGED <<rs, fmt, qr, scan>>

\* One round of walk_pairs_v1's "while x > 0".
WalkPair ==
    /\ walk.pc = "loop"
    /\ walk.x > 0
    /\ walk' = [walk EXCEPT !.out = walk.out \o walk_pair(walk.x, walk.upward),
                            !.pairs = Append(walk.pairs, <<walk.x, walk.x - 1, walk.upward>>),
                            !.upward = ~walk.upward,
                            !.x = walk.x - 2]
    /\ UNCHANGED <<rs, fmt, qr, scan>>

\* After the loop: the single column when x = 0; the path is returned.
WalkLast ==
    /\ walk.pc = "loop"
    /\ walk.x <= 0
    /\ walk' = [walk EXCEPT !.out = IF walk.x = 0
                                    THEN walk.out \o walk_single(walk.upward)
                                    ELSE walk.out,
                            !.pc = "extract"]
    /\ UNCHANGED <<rs, fmt, qr, scan>>

\* The extraction after its loop visited one more coordinate.
Extracted(st, r) ==
    [st EXCEPT !.k = st.k + 1, !.bits = r.bits, !.stop = r.stop]

\* One round of extract_data_bits_v1's loop over the path.
ExtractStep ==
    /\ walk.pc = "extract"
    /\ walk' = IF walk.k >= Len(walk.out) \/ walk.stop
               THEN [walk EXCEPT !.pc = "done"]
               ELSE Extracted(walk, extract_step([bits |-> walk.bits, stop |-> walk.stop],
                                                 walk.grid, walk.out[walk.k + 1]))
    /\ UNCHANGED <<rs, fmt, qr, scan>>

NextData == CountStep \/ WalkPair \/ WalkLast \/ ExtractStep

SpecData == InitData /\ [][NextData]_vars

---------------------------------------------------------------------------
(* The format harness: a format word is produced for (ec, mask) by the     *)
(* decoder's encoder (format.rs) or by the synthesizer's (encode.rs), some *)
(* bits of a synthesizer word are flipped, and the word is decoded; a     *)
(* synthesizer word may instead be written into a grid, in two copies.     *)

MaxFlips == 3

Masks == 0..7

InitFmt ==
    /\ scan = Idle
    /\ fmt \in [pc : {"start"}, ec : Levels, mask : Masks, by : {"none"},
                word : {0}, flips : {{}}, grid : {<<>>}, res : {None}]
    /\ rs = Idle
    /\ walk = Idle
    /\ qr = Idle

\* encode_format_word_masked(ec, mask)
FmtEncode ==
    /\ fmt.pc = "start"
    /\ fmt' = [fmt EXCEPT !.pc = "word", !.by = "format.rs",
                          !.word = encode_format_word_masked(fmt.ec, fmt.mask)]
    /\ UNCHANGED <<rs, walk, qr, scan>>

\* encode_format_bits(ec, mask)
FmtSynth ==
    /\ fmt.pc = "start"
    /\ fmt' = [fmt EXCEPT !.pc = "word", !.by = "encode.rs",
                          !.word = encode_format_bits(fmt.ec, fmt.mask)]
    /\ UNCHANGED <<rs, walk, qr, scan>>

\* One of the 15 modules of a word the synthesizer wrote is read wrongly.
FmtFlip ==
    /\ fmt.pc = "word"
    /\ fmt.by = "encode.rs"
    /\ Cardinality(fmt.flips) < MaxFlips
    /\ \E b \in (0..14) \ fmt.flips :
           fmt' = [fmt EXCEPT !.word = Xor(fmt.word, Pow2(b)),
                              !.flips = fmt.flips \cup {b}]
    /\ UNCHANGED <<rs, walk, qr, scan>>

\* decode_format_word(word)
FmtDecode ==
    /\ fmt.pc = "word"
    /\ fmt' = [fmt EXCEPT !.pc = "decoded", !.res = decode_format_word(fmt.word)]
    /\ UNCHANGED <<rs, walk, qr, scan>>

\* The synthesizer's two format copies written over the function patterns.
FmtWrite ==
    /\ fmt.pc = "word"
    /\ fmt.by = "encode.rs"
    /\ fmt.flips = {}
    /\ fmt' = [fmt EXCEPT !.pc = "written",
                          !.grid = write_format(function_patterns, fmt.word)]
    /\ UNCHANGED <<rs, walk, qr, scan>>

NextFmt == FmtEncode \/ FmtSynth \/ FmtFlip \/ FmtDecode \/ FmtWrite

SpecFmt == InitFmt /\ [][NextFmt]_vars

---------------------------------------------------------------------------
(* The QR harness: a text is synthesized and the grid decoded; sampled     *)
(* grids of other origin are decoded as well.                              *)

\* "", "A", "HELLO", a two-byte character, 17 bytes.
Texts ==
    { <<>>, <<65>>, <<72, 69, 76, 76, 79>>, <<195, 169>>,
      [i \in 1..17 |-> 96 + i] }

\* The 26 codewords of a v1-L symbol carrying "HELLO": the data codewords
\* of data_codewords and the EC bytes a conforming encoder appends.
HelloBlock ==
    << 64, 84, 132, 84, 196, 196, 240, 17, 236, 17, 236, 17, 236, 17, 236,
       17, 236, 17, 236, 95, 105, 74, 31, 73, 149, 139 >>

Blocks == {HelloBlock, Zeros(26)}

\* A symbol carrying block under mask, its format word written along two
\* paths.
SymbolGrid(block, mask, word, paths) ==
    put_format(put_format(place_data(function_patterns, block, mask),
                          paths[1], word),
               paths[2], word)

\* Sampled grids: symbols with the synthesizer's format word at the
\* synthesizer's positions, and symbols with the decoder's format word
\* along the decoder's read paths.
SampleGrids ==
    { SymbolGrid(b, m, encode_format_bits("L", m), <<format_copy_a, format_copy_b>>) :
          b \in Blocks, m \in Masks }
    \cup
    { SymbolGrid(b, em[2], encode_format_word_masked(em[1], em[2]), FORMAT_READ_PATHS_V1) :
          b \in Blocks, em \in Levels \X Masks }

Opts == [qr_verify_rs : BOOLEAN, qr_allowed_ec_levels : {{}, {"L", "M"}}]

NoSymbol == [res |-> "pending"]

InitQR ==
    /\ scan = Idle
    /\ qr \in [pc : {"start"}, origin : {"text"}, text : Texts, mask : Masks,
               opts : Opts, grid : {<<>>}, out : {NoSymbol}]
              \cup [pc : {"grid"}, origin : {"sample"}, text : {<<>>}, mask : {0},
                    opts : Opts, grid : SampleGrids, out : {NoSymbol}]
    /\ rs = Idle
    /\ fmt = Idle
    /\ walk = Idle

\* The state after synthesize_qr_v1_from_text returned r.
Synthesized(st, r) ==
    IF r.ok THEN [st EXCEPT !.pc = "grid", !.grid = r.v]
    ELSE [st EXCEPT !.pc = "synth_panic"]

Synthesize ==
    /\ qr.pc = "start"
    /\ qr' = Synthesized(qr, synthesize_qr_v1_from_text(qr.text, qr.mask))
    /\ UNCHANGED <<rs, fmt, walk, scan>>

\* The QR branch of decode_all on the sampled grid.
Decode ==
    /\ qr.pc = "grid"
    /\ qr' = [qr EXCEPT !.pc = "decoded", !.out = try_decode_qr_v1(qr.grid, qr.opts)]
    /\ UNCHANGED <<rs, fmt, walk, scan>>

NextQR == Synthesize \/ Decode

SpecQR == InitQR /\ [][NextQR]_vars

---------------------------------------------------------------------------
(* The claims C1 to C10.                                                   *)

\* C1 (SpecQR): a text of at most 17 bytes synthesized under any mask id
\* 0..7 gives a grid, and the decoder's steps on that grid yield exactly
\* the text, with qr.ec = "L" and qr.mask = the mask id.
C1_RoundTrip ==
    /\ qr.pc # "synth_panic"
    /\ (qr.pc = "decoded" /\ qr.origin = "text") =>
           /\ qr.out.res = "Some"
           /\ qr.out.text = qr.text
           /\ qr.out.ec = "L"
           /\ qr.out.mask = qr.mask

\* C2 (SpecRS): a v1-L block, 19 data bytes followed by their 7 EC bytes,
\* with one byte XORed by a nonzero value, is corrected: the call returns
\* Ok and the block is the original 26 bytes again.
C2_SingleError ==
    (rs.level = "L" /\ rs.pc \in {"done", "dec_panic"} /\ Cardinality(rs.errs) = 1) =>
        (rs.res = "Ok" /\ rs.cw = rs.block)

\* C3 (SpecRS): for each of the four splits and every data block,
\* rs_ec_bytes returns ec_len bytes, and correcting the uncorrupted block
\* returns Ok(0) and leaves the 26 bytes unchanged.
C3_CleanRoundTrip ==
    /\ rs.pc # "enc_panic"
    /\ rs.pc = "encoded" => Len(rs.block) = 26
    /\ (rs.pc \in {"done", "dec_panic"} /\ rs.errs = {}) =>
           (rs.res = "Ok" /\ rs.n = 0 /\ rs.cw = rs.block)

\* C4 (SpecFmt): the word of the format encoder for (ec, mask), decoded by
\* decode_format_word, gives back (ec, mask) at Hamming distance 0.
C4_FormatRoundTrip ==
    (fmt.pc = "decoded" /\ fmt.by = "format.rs" /\ fmt.flips = {}) =>
        /\ fmt.res.some
        /\ fmt.res.ec = fmt.ec
        /\ fmt.res.mask = fmt.mask
        /\ fmt.res.d = 0

\* A word of the format encoder was decoded, for the last level and mask.
C4_Witness ==
    /\ fmt.pc = "decoded"
    /\ fmt.by = "format.rs"
    /\ fmt.flips = {}
    /\ fmt.ec = "H"
    /\ fmt.mask = 7
    /\ fmt.res.some

\* The (ec, mask) whose valid format codeword, BCH(15,5) XOR 0x5412, is
\* within Hamming distance 3 of a 15-bit word.
NearCodewords(word) ==
    {em \in Levels \X Masks :
        count_ones(Xor(word, encode_format_bits(em[1], em[2]))) <= 3}

\* C5 (SpecFmt): a 15-bit word is decoded exactly when a valid format
\* codeword lies within distance 3 of it, that codeword is unique and is
\* the result; so a valid codeword with 1, 2 or 3 bits flipped decodes to
\* its own (ec, mask).
C5_NearestCodeword ==
    (fmt.pc = "decoded" /\ fmt.word < 32768) =>
        /\ fmt.res.some <=> NearCodewords(fmt.word) # {}
        /\ Cardinality(NearCodewords(fmt.word)) <= 1
        /\ fmt.res.some => <<fmt.res.ec, fmt.res.mask>> \in NearCodewords(fmt.word)
        /\ fmt.by = "encode.rs" =>
               /\ fmt.res.some
               /\ fmt.res.ec = fmt.ec
               /\ fmt.res.mask = fmt.mask

\* C6 (SpecFmt): the candidate codeword of decode_format_word for
\* (ec, mask) is the BCH(15,5) codeword of (ec_bits << 3) | mask XORed with
\* 0x5412, and equals the word the synthesizer writes for (ec, mask).
C6_SameFormatWord ==
    (fmt.pc = "word" /\ fmt.by = "format.rs" /\ fmt.flips = {}) =>
        /\ fmt.word = Xor(encode_format_word_unmasked(fmt.ec, fmt.mask), 21522)
        /\ fmt.word = encode_format_bits(fmt.ec, fmt.mask)

\* C7 (SpecFmt): read path A is (x, 8) for x in 0..5, 7, 8 then (8, y) for
\* y in 7, 5, 4, 3, 2, 1, 0; read path B is made of (8, y) for y in 14..20
\* and (x, 8) for x in 13..20; and each path, read on a grid the
\* synthesizer wrote a format word into, gives that word bit for bit.
C7_ReadPaths ==
    fmt.pc = "written" =>
        /\ FORMAT_READ_PATHS_V1[1] =
               << <<0, 8>>, <<1, 8>>, <<2, 8>>, <<3, 8>>, <<4, 8>>, <<5, 8>>,
                  <<7, 8>>, <<8, 8>>, <<8, 7>>, <<8, 5>>, <<8, 4>>, <<8, 3>>,
                  <<8, 2>>, <<8, 1>>, <<8, 0>> >>
        /\ {FORMAT_READ_PATHS_V1[2][i] : i \in 1..15} =
               {<<8, y>> : y \in 14..20} \cup {<<x, 8>> : x \in 13..20}
        /\ \A p \in 1..2 : \A i \in 1..15 :
               fmt.grid[(FORMAT_READ_PATHS_V1[p][i][2] * 21)
                        + FORMAT_READ_PATHS_V1[p][i][1] + 1]
                   = (Bit(fmt.word, 15 - i) = 1)

\* C8 (SpecData): of the 441 coordinates, is_function_v1 holds for exactly
\* 233 and fails for exactly 208.
C8_FunctionCount ==
    walk.pc = "counted" => (walk.j = 441 /\ walk.func = 233 /\ walk.j - walk.func = 208)

\* The count ran over all the coordinates.
C8_Witness == walk.pc = "counted" /\ walk.j = N1 * N1 /\ walk.func > 0

\* The grid values at the first n coordinates of coords, module (x, y) being
\* at index 21 * y + x of the grid.
ValuesAlong(grid, coords, n) ==
    [k \in 1..n |-> grid[(coords[k][2] * 21) + coords[k][1] + 1]]

C10_Pairs ==
    walk.pc \in {"extract", "done"} =>
        /\ [i \in 1..Len(walk.pairs) |-> <<walk.pairs[i][1], walk.pairs[i][2]>>] =
               << <<20, 19>>, <<18, 17>>, <<16, 15>>, <<14, 13>>, <<12, 11>>,
                  <<10, 9>>, <<8, 7>>, <<5, 4>>, <<3, 2>>, <<1, 0>> >>
        /\ \A i \in 1..Len(walk.out) : walk.out[i][1] # 6
        /\ \A i \in 1..Len(walk.pairs) : walk.pairs[i][3] = (i % 2 = 1)


---------------------------------------------------------------------------
(* The mask harness: unmask_matrix_v1 applied to a matrix under a mask id. *)

\* Matrices tried: the bit planes of the module index, all light, all dark,
\* and a symbol.
MaskGrids ==
    { GridPlane(b) : b \in 0..MaxPlane }
    \cup { [i \in 1..(N1 * N1) |-> FALSE], [i \in 1..(N1 * N1) |-> TRUE],
           SymbolGrid(HelloBlock, 3, encode_format_bits("L", 3),
                      <<format_copy_a, format_copy_b>>) }

InitMask ==
    /\ scan = Idle
    /\ qr \in [pc : {"matrix"}, grid : MaskGrids, mask : Masks, out : {<<>>}]
    /\ rs = Idle
    /\ fmt = Idle
    /\ walk = Idle

\* unmask = unmask_matrix_v1(&matrix, mask_id)
Unmask ==
    /\ qr.pc = "matrix"
    /\ qr' = [qr EXCEPT !.pc = "unmasked", !.out = unmask_matrix_v1(qr.grid, qr.mask)]
    /\ UNCHANGED <<rs, fmt, walk, scan>>

NextMask == Unmask

SpecMask == InitMask /\ [][NextMask]_vars

---------------------------------------------------------------------------
(* The claims C11 to C20.                                                  *)

\* The mask condition of ISO/IEC 18004 for the pattern reference id at row
\* i and column j.
IsoMaskCondition(id, i, j) ==
    CASE id = 0 -> (i + j) % 2 = 0
      [] id = 1 -> i % 2 = 0
      [] id = 2 -> j % 3 = 0
      [] id = 3 -> (i + j) % 3 = 0
      [] id = 4 -> ((i \div 2) + (j \div 3)) % 2 = 0
      [] id = 5 -> ((i * j) % 2) + ((i * j) % 3) = 0
      [] id = 6 -> (((i * j) % 2) + ((i * j) % 3)) % 2 = 0
      [] id = 7 -> (((i + j) % 2) + ((i * j) % 3)) % 2 = 0

\* C11 (SpecMask): in the matrix unmask_matrix_v1 returns for a mask id
\* 0..7, every function module keeps its input value and every data module
\* is flipped exactly when the ISO/IEC 18004 condition of that id holds at
\* its row y and column x.
C11_Unmask ==
    qr.pc = "unmasked" =>
        \A x \in 0..(N1 - 1) : \A y \in 0..(N1 - 1) :
            GridAt(qr.out, x, y) =
                IF is_function_v1(x, y) THEN GridAt(qr.grid, x, y)
                ELSE (GridAt(qr.grid, x, y) # IsoMaskCondition(qr.mask, y, x))

\* C11: a matrix was unmasked and some data module was flipped while some
\* other data module was not.
C11_Witness ==
    /\ qr.pc = "unmasked"
    /\ \E i \in 1..(N1 * N1) : qr.out[i] # qr.grid[i]
    /\ \E x \in 0..(N1 - 1) : \E y \in 0..(N1 - 1) :
          ~is_function_v1(x, y) /\ GridAt(qr.out, x, y) = GridAt(qr.grid, x, y)

\* C12 (SpecQR): none of the decoder's steps on a sampled grid aborts with
\* a panic, whatever the 26 codewords and the EC-level split.
C12_NoPanic == qr.pc = "decoded" => qr.out.res # "Panic"

---------------------------------------------------------------------------
(* binarize.rs: thresholds, run lengths and module widths of one row.      *)
(* A row is a sequence of u8 pixels (0 = black, 255 = white); a binarized  *)
(* row is a sequence of BOOLEAN, TRUE = black.  Sequences are 1-based, so  *)
(* the element the code calls row[i] is row[i + 1] here.                   *)

Min(a, b) == IF a <= b THEN a ELSE b

clamp(v, lo, hi) == IF v < lo THEN lo ELSE IF v > hi THEN hi ELSE v

\* pref[hi] - pref[lo - 1] for the prefix sums pref of binarize_row_adaptive,
\* i.e. the sum of row[lo..hi]; no u32 overflow below 2^24 pixels.
RECURSIVE window_sum(_, _, _)
window_sum(row, lo, hi) ==
    IF lo > hi THEN 0
    ELSE IF lo = hi THEN row[lo]
    ELSE window_sum(row, lo, (lo + hi) \div 2)
         + window_sum(row, ((lo + hi) \div 2) + 1, hi)

\* fn otsu_like_threshold(row) -> u8
otsu_like_threshold(row) ==
    IF Len(row) = 0 THEN 0
    ELSE LET min_v == CHOOSE v \in {row[i] : i \in 1..Len(row)} :
                          \A i \in 1..Len(row) : v <= row[i]
             max_v == CHOOSE v \in {row[i] : i \in 1..Len(row)} :
                          \A i \in 1..Len(row) : v >= row[i]
             mean  == (window_sum(row, 1, Len(row)) \div Len(row)) % 256
             mid   == (min_v + max_v) \div 2
         IN  (mean + mid) \div 2

\* fn binarize_row(row) -> Vec<bool>
binarize_threshold(row, t) == [i \in 1..Len(row) |-> row[i] < t]

binarize_row(row) == binarize_threshold(row, otsu_like_threshold(row))

\* win of binarize_row_adaptive: n / 32 kept in 8..64
adaptive_window(n) == clamp(n \div 32, 8, 64)

\* mean of the window around the 0-based pixel i: left = i.saturating_sub(win),
\* right = min(i + win, n - 1), mean = sum / len
adaptive_mean(row, i, win) ==
    window_sum(row, Max(i - win, 0) + 1, Min(i + win, Len(row) - 1) + 1)
        \div (Min(i + win, Len(row) - 1) - Max(i - win, 0) + 1)

\* fn binarize_row_adaptive(row) -> Vec<bool>: black iff v < mean - bias (i32)
binarize_row_adaptive(row) ==
    [i \in 1..Len(row) |->
        row[i] < adaptive_mean(row, i - 1, adaptive_window(Len(row))) - 5]

\* The 1-based positions at which a run of row_bin starts.
run_starts(row_bin) ==
    SelectSeq([i \in 1..Len(row_bin) |-> i],
              LAMBDA i : i = 1 \/ row_bin[i] # row_bin[i - 1])

run_lengths(starts, n) ==
    [k \in 1..Len(starts) |->
        (IF k = Len(starts) THEN n + 1 ELSE starts[k + 1]) - starts[k]]

\* runs without the push of the last run after the loop.
runs_unflushed(row_bin) ==
    SubSeq(run_lengths(run_starts(row_bin), Len(row_bin)), 1,
           Len(run_starts(row_bin)) - 1)

\* fn runs(row_bin) -> Vec<usize>
runs(row_bin) == run_lengths(run_starts(row_bin), Len(row_bin))

\* sorted[k] after sort_unstable, k 0-based: the value with at most k smaller
\* elements and more than k elements not greater.
sorted_at(rl, k) ==
    CHOOSE v \in {rl[j] : j \in 1..Len(rl)} :
        /\ Cardinality({j \in 1..Len(rl) : rl[j] < v}) <= k
        /\ Cardinality({j \in 1..Len(rl) : rl[j] <= v}) > k

\* Twice the f32 base of normalize_modules (a multiple of 0.5): the median of
\* thin_slice = sorted[..(len + 1) / 2], at least 1.0.
base_twice(rl) ==
    LET thin == (Max(Len(rl), 1) + 1) \div 2
        mid  == thin \div 2
    IN  Max(2, IF thin % 2 = 1 THEN 2 * sorted_at(rl, mid)
               ELSE sorted_at(rl, mid - 1) + sorted_at(rl, mid))

\* (w as f32 / base).round() clamped to 1..4; round is half away from zero.
\* w and base are exact in f32 and the quotient is never within an f32
\* rounding error of a half for rows below 2^20 pixels.
quantize(w, base2) == clamp((4 * w + base2) \div (2 * base2), 1, 4)

quantize_all(rl, base2) == [k \in 1..Len(rl) |-> quantize(rl[k], base2)]

\* fn normalize_modules(row_bin, rl) -> (Vec<u8>, bool)
normalize_modules(row_bin, rl) ==
    IF Len(rl) = 0 THEN <<(<<>>), FALSE>>
    ELSE <<quantize_all(rl, base_twice(rl)),
           IF Len(row_bin) = 0 THEN FALSE ELSE row_bin[1]>>

---------------------------------------------------------------------------
(* one_d/ean13.rs: the EAN-13 / UPC-A row decoder and the row synthesizer. *)
(* A text is a sequence of character codes; digits are 0..9.               *)

A_PATTERNS == << <<3, 2, 1, 1>>, <<2, 2, 2, 1>>, <<2, 1, 2, 2>>, <<1, 4, 1, 1>>,
                 <<1, 1, 3, 2>>, <<1, 2, 3, 1>>, <<1, 1, 1, 4>>, <<1, 3, 1, 2>>,
                 <<1, 2, 1, 3>>, <<3, 1, 1, 2>> >>

B_PATTERNS == << <<1, 1, 2, 3>>, <<1, 2, 2, 2>>, <<2, 2, 1, 2>>, <<1, 1, 4, 1>>,
                 <<2, 3, 1, 1>>, <<1, 3, 2, 1>>, <<4, 1, 1, 1>>, <<2, 1, 3, 1>>,
                 <<3, 1, 2, 1>>, <<2, 1, 1, 3>> >>

C_PATTERNS == A_PATTERNS

\* FIRST_DIGIT_MASKS: TRUE = B, FALSE = A
FIRST_DIGIT_MASKS ==
    << <<FALSE, FALSE, FALSE, FALSE, FALSE, FALSE>>,
       <<FALSE, FALSE, TRUE, FALSE, TRUE, TRUE>>,
       <<FALSE, FALSE, TRUE, TRUE, FALSE, TRUE>>,
       <<FALSE, FALSE, TRUE, TRUE, TRUE, FALSE>>,
       <<FALSE, TRUE, FALSE, FALSE, TRUE, TRUE>>,
       <<FALSE, TRUE, TRUE, FALSE, FALSE, TRUE>>,
       <<FALSE, TRUE, TRUE, TRUE, FALSE, FALSE>>,
       <<FALSE, TRUE, FALSE, TRUE, FALSE, TRUE>>,
       <<FALSE, TRUE, FALSE, TRUE, TRUE, FALSE>>,
       <<FALSE, TRUE, TRUE, FALSE, TRUE, FALSE>> >>

AbsDiff(a, b) == IF a >= b THEN a - b ELSE b - a

\* fn patdist(p, q) -> u32
patdist(p, q) ==
    AbsDiff(p[1], q[1]) + AbsDiff(p[2], q[2]) + AbsDiff(p[3], q[3])
        + AbsDiff(p[4], q[4])

\* fn best_match(pat, dict) -> (u8, u32): the first entry of least distance;
\* there is no bound on the distance.
best_match(pat, dict) ==
    LET i == CHOOSE i \in 1..10 :
                 /\ \A j \in 1..10 : patdist(pat, dict[i]) <= patdist(pat, dict[j])
                 /\ \A j \in 1..(i - 1) : patdist(pat, dict[j]) > patdist(pat, dict[i])
    IN  <<i - 1, patdist(pat, dict[i])>>

\* fn find_guard_start(m) -> Option<usize>
find_guard_start(m) ==
    LET hits == {i \in 0..(Max(Len(m) - 2, 0) - 1) :
                    At(m, i) = 1 /\ At(m, i + 1) = 1 /\ At(m, i + 2) = 1}
    IN  IF hits = {} THEN None
        ELSE Some(CHOOSE i \in hits : \A j \in hits : i <= j)

\* fn is_guard_center(m, i) -> bool
is_guard_center(m, i) ==
    /\ i + 4 < Len(m)
    /\ \A k \in 0..4 : At(m, i + k) = 1

\* fn is_guard_end(m, i) -> bool
is_guard_end(m, i) ==
    /\ i + 2 < Len(m)
    /\ \A k \in 0..2 : At(m, i + k) = 1

\* fn deduce_first_digit(mask_b) -> Option<u8>
deduce_first_digit(mask_b) ==
    IF \E d \in 1..10 : FIRST_DIGIT_MASKS[d] = mask_b
    THEN Some((CHOOSE d \in 1..10 :
                  /\ FIRST_DIGIT_MASKS[d] = mask_b
                  /\ \A e \in 1..(d - 1) : FIRST_DIGIT_MASKS[e] # mask_b) - 1)
    ELSE None

\* sum of check_ean13_checksum: d[i] * (1 if i even else 3) over i in 0..12
ean13_weighted_sum(d) ==
    At(d, 0) + 3 * At(d, 1) + At(d, 2) + 3 * At(d, 3) + At(d, 4) + 3 * At(d, 5)
        + At(d, 6) + 3 * At(d, 7) + At(d, 8) + 3 * At(d, 9) + At(d, 10)
        + 3 * At(d, 11)

\* A variant of check_ean13_checksum that accepts every check digit; the
\* property C15_Checksum does not survive it.
check_ean13_checksum_off(d) == At(d, 12) \in 0..9

\* fn check_ean13_checksum(d) -> bool
check_ean13_checksum(d) == (10 - (ean13_weighted_sum(d) % 10)) % 10 = At(d, 12)

\* The four modules of a digit group at the 0-based position idx.
group_at(modules, idx) ==
    <<At(modules, idx), At(modules, idx + 1), At(modules, idx + 2),
      At(modules, idx + 3)>>

\* One pass of the left-half loop of decode_row: the digit and its A/B type.
left_digit(a, b) ==
    IF a[2] <= b[2] THEN [digit |-> a[1], is_b |-> FALSE]
    ELSE [digit |-> b[1], is_b |-> TRUE]

left_half(modules, idx) ==
    [d \in 1..6 |->
        left_digit(best_match(group_at(modules, idx + 4 * (d - 1)), A_PATTERNS),
                   best_match(group_at(modules, idx + 4 * (d - 1)), B_PATTERNS))]

\* A variant of right_half that reads the right half with the B table; the
\* round trip C14_EanRoundTrip does not survive it.
right_half_b(modules, idx) ==
    [d \in 1..6 |->
        best_match(group_at(modules, idx + 4 * (d - 1)), B_PATTERNS)[1]]

\* The right-half loop of decode_row.
right_half(modules, idx) ==
    [d \in 1..6 |->
        best_match(group_at(modules, idx + 4 * (d - 1)), C_PATTERNS)[1]]

\* digits -> String: (b'0' + d) as char
digits_text(digits) == [k \in 1..Len(digits) |-> 48 + digits[k]]

\* decode_row, steps 7 and 8 and the text: the first digit is dropped when it
\* is 0.
decode_digits(first, left, right) ==
    IF ~first.some THEN None
    ELSE IF ~check_ean13_checksum(
                <<first.v>> \o [k \in 1..6 |-> left[k].digit] \o right)
    THEN None
    ELSE IF first.v = 0
    THEN Some(digits_text([k \in 1..6 |-> left[k].digit] \o right))
    ELSE Some(digits_text(
                <<first.v>> \o [k \in 1..6 |-> left[k].digit] \o right))

\* decode_row, steps 3 to 8, from the 0-based position i of the start guard.
\* Each of the six passes of a half returns None when idx + 3 >= len.
decode_from(modules, i) ==
    IF \E d \in 0..5 : i + 3 + 4 * d + 3 >= Len(modules) THEN None
    ELSE IF ~is_guard_center(modules, i + 27) THEN None
    ELSE IF \E d \in 0..5 : i + 32 + 4 * d + 3 >= Len(modules) THEN None
    ELSE IF ~is_guard_end(modules, i + 56) THEN None
    ELSE decode_digits(
             deduce_first_digit([d \in 1..6 |-> left_half(modules, i + 3)[d].is_b]),
             left_half(modules, i + 3), right_half(modules, i + 32))

\* decode_row, step 2
decode_modules(modules) ==
    IF ~find_guard_start(modules).some THEN None
    ELSE decode_from(modules, find_guard_start(modules).v)

\* decode_row, step 1: the adaptive row when it has 40 runs, else the global one
decode_global(rb2, rl2) ==
    IF Len(rl2) < 40 THEN None
    ELSE decode_modules(normalize_modules(rb2, rl2)[1])

decode_adaptive(row_gray, rb, rl) ==
    IF Len(rl) >= 40 THEN decode_modules(normalize_modules(rb, rl)[1])
    ELSE decode_global(binarize_row(row_gray), runs(binarize_row(row_gray)))

\* pub fn decode_row(row_gray, opts) -> Option<String>
ean13_decode_row(row_gray, opts) ==
    IF Len(row_gray) < opts.min_modules THEN None
    ELSE decode_adaptive(row_gray, binarize_row_adaptive(row_gray),
                         runs(binarize_row_adaptive(row_gray)))

\* The module widths to pixels, starting white: run k is black iff k is even.
modules_to_pixels(starts, total) ==
    [p \in 1..total |->
        IF Cardinality({k \in 1..Len(starts) : starts[k] <= p}) % 2 = 0
        THEN 0 ELSE 255]

\* starts[k] = 1 + unit * (sum of modules[1..k-1]), the first pixel of run k
module_starts(modules, unit) ==
    [k \in 1..Len(modules) |-> 1 + unit * window_sum(modules, 1, k - 1)]

\* The module list of synthesize_ideal_row for 13 digits.
ean13_modules(ean13) ==
    <<9, 1, 1, 1>>
    \o (IF FIRST_DIGIT_MASKS[ean13[1] + 1][1] THEN B_PATTERNS ELSE A_PATTERNS)[ean13[2] + 1]
    \o (IF FIRST_DIGIT_MASKS[ean13[1] + 1][2] THEN B_PATTERNS ELSE A_PATTERNS)[ean13[3] + 1]
    \o (IF FIRST_DIGIT_MASKS[ean13[1] + 1][3] THEN B_PATTERNS ELSE A_PATTERNS)[ean13[4] + 1]
    \o (IF FIRST_DIGIT_MASKS[ean13[1] + 1][4] THEN B_PATTERNS ELSE A_PATTERNS)[ean13[5] + 1]
    \o (IF FIRST_DIGIT_MASKS[ean13[1] + 1][5] THEN B_PATTERNS ELSE A_PATTERNS)[ean13[6] + 1]
    \o (IF FIRST_DIGIT_MASKS[ean13[1] + 1][6] THEN B_PATTERNS ELSE A_PATTERNS)[ean13[7] + 1]
    \o <<1, 1, 1, 1, 1>>
    \o C_PATTERNS[ean13[8] + 1] \o C_PATTERNS[ean13[9] + 1]
    \o C_PATTERNS[ean13[10] + 1] \o C_PATTERNS[ean13[11] + 1]
    \o C_PATTERNS[ean13[12] + 1] \o C_PATTERNS[ean13[13] + 1]
    \o <<1, 1, 1, 9>>

\* ean13 of synthesize_ideal_row: 12 digits are a UPC-A body (a leading 0 is
\* added and the check digit recomputed), 13 digits are taken as they are.
ean13_of_text(ds) ==
    IF Len(ds) = 12
    THEN <<0>> \o SubSeq(ds, 1, 11)
         \o <<(10 - (ean13_weighted_sum(<<0>> \o SubSeq(ds, 1, 11)) % 10)) % 10>>
    ELSE SubSeq(ds, 1, 13)

pixels_of(modules, unit) ==
    modules_to_pixels(module_starts(modules, unit),
                      unit * window_sum(modules, 1, Len(modules)))

\* pub fn synthesize_ideal_row(digits, unit) -> Vec<u8>; digits is a text
synthesize_ideal_row(digits, unit) ==
    pixels_of(ean13_modules(ean13_of_text([k \in 1..Len(digits) |-> digits[k] - 48])),
              unit)

---------------------------------------------------------------------------
(* The EAN-13 harness: a row is synthesized from a text, or painted with   *)
(* widths that differ from the synthesizer's in one place, and decoded.    *)

\* impl Default for DecodeOptions
DefaultDecodeOptions == [scan_rows |-> 15, min_modules |-> 30]

MaxUnit == 3

Units == 1..MaxUnit

\* Twelve-digit bodies, one for each first digit.
EanBodies ==
    { <<0, 0, 3, 6, 0, 0, 0, 2, 9, 1, 4, 5>>, <<1, 2, 3, 4, 5, 6, 7, 8, 9, 0, 1, 2>>,
      <<2, 0, 0, 0, 0, 0, 0, 0, 0, 0, 0, 0>>, <<3, 1, 4, 1, 5, 9, 2, 6, 5, 3, 5, 8>>,
      <<4, 0, 0, 6, 3, 8, 1, 3, 3, 3, 9, 3>>, <<5, 9, 0, 1, 2, 3, 4, 1, 2, 3, 4, 5>>,
      <<6, 6, 6, 6, 6, 6, 6, 6, 6, 6, 6, 6>>, <<7, 7, 3, 9, 4, 8, 2, 0, 5, 1, 6, 4>>,
      <<8, 8, 8, 7, 7, 7, 4, 4, 4, 9, 9, 9>>, <<9, 7, 8, 0, 3, 0, 6, 4, 0, 6, 1, 5>> }

\* The check digit that check_ean13_checksum accepts after the body.
ean13_check_digit(body) == (10 - (ean13_weighted_sum(body) % 10)) % 10

\* Texts given to the synthesizer: 13 digits with the right check digit, 13
\* digits with a wrong one, and 12-digit UPC-A texts.
EanTexts ==
    {digits_text(b \o <<ean13_check_digit(b)>>) : b \in EanBodies}
    \cup {digits_text(b \o <<(ean13_check_digit(b) + 3) % 10>>) : b \in EanBodies}
    \cup {digits_text(SubSeq(b, 2, 12) \o <<0>>) : b \in EanBodies}

\* Places where a painted row differs from the synthesized one: a guard with
\* a double-width bar, or the digit group g with the widths 4, 4, 4, 4.
PaintKinds ==
    {[guard |-> g, group |-> 0] : g \in {"start", "centre", "end"}}
    \cup {[guard |-> "none", group |-> g] : g \in {1, 2, 7, 12}}

\* The 1-based positions of the paint in the 61 module widths.
paint_modules(modules, kind) ==
    [k \in 1..Len(modules) |->
        IF kind.guard = "start" /\ k = 3 THEN 2
        ELSE IF kind.guard = "centre" /\ k = 31 THEN 2
        ELSE IF kind.guard = "end" /\ k = 59 THEN 2
        ELSE IF kind.group >= 1 /\ kind.group <= 6
                /\ k > 4 + 4 * (kind.group - 1) /\ k <= 4 + 4 * kind.group THEN 4
        ELSE IF kind.group >= 7
                /\ k > 33 + 4 * (kind.group - 7) /\ k <= 33 + 4 * (kind.group - 6) THEN 4
        ELSE modules[k]]

InitEan ==
    /\ scan \in [pc : {"text"}, digits : EanTexts, unit : Units,
                 paint : {[guard |-> "none", group |-> 0]},
                 row : {<<>>}, out : {None}]
    /\ rs = Idle
    /\ fmt = Idle
    /\ walk = Idle
    /\ qr = Idle

\* synthesize_ideal_row(digits, unit)
SynthesizeRow ==
    /\ scan.pc = "text"
    /\ scan' = [scan EXCEPT !.pc = "row",
                            !.row = synthesize_ideal_row(scan.digits, scan.unit)]
    /\ UNCHANGED <<rs, fmt, walk, qr>>

\* A row printed with the widths of the text except at one place.
PaintRow ==
    /\ scan.pc = "text"
    /\ \E kind \in PaintKinds :
         scan' = [scan EXCEPT
                    !.pc = "row", !.paint = kind,
                    !.row = pixels_of(
                        paint_modules(
                            ean13_modules(ean13_of_text(
                                [k \in 1..Len(scan.digits) |-> scan.digits[k] - 48])),
                            kind),
                        scan.unit)]
    /\ UNCHANGED <<rs, fmt, walk, qr>>

\* ean13::decode_row(row, &DecodeOptions::default())
DecodeRow ==
    /\ scan.pc = "row"
    /\ scan' = [scan EXCEPT !.pc = "decoded",
                            !.out = ean13_decode_row(scan.row, DefaultDecodeOptions)]
    /\ UNCHANGED <<rs, fmt, walk, qr>>

NextEan == SynthesizeRow \/ PaintRow \/ DecodeRow

SpecEan == InitEan /\ [][NextEan]_vars

---------------------------------------------------------------------------
(* Claims on the EAN-13 row decoder.                                       *)

\* The row of the state is the synthesizer's, with nothing painted over.
EanSynthesized == scan.paint.guard = "none" /\ scan.paint.group = 0

\* The digits of a text.
text_digits(text) == [k \in 1..Len(text) |-> text[k] - 48]

\* C14: for every 13-digit text D with a valid mod-10 check digit and every
\* unit in 1..MaxUnit, decode_row on the row synthesized for D returns the
\* digits of D: all 13, or the last 12 when the first digit is 0.
C14_EanRoundTrip ==
    (/\ scan.pc = "decoded"
     /\ EanSynthesized
     /\ Len(scan.digits) = 13
     /\ check_ean13_checksum(text_digits(scan.digits)))
    => scan.out = Some(IF scan.digits[1] = 48 THEN SubSeq(scan.digits, 2, 13)
                       ELSE scan.digits)

\* C14 witness: a 13-digit text with first digit 0 and a valid check digit,
\* synthesized at 3 pixels per module, came back as its last 12 digits.
C14_Witness ==
    /\ scan.pc = "decoded"
    /\ EanSynthesized
    /\ scan.unit = 3
    /\ Len(scan.digits) = 13
    /\ scan.digits[1] = 48
    /\ check_ean13_checksum(text_digits(scan.digits))
    /\ scan.out.some
    /\ Len(scan.out.v) = 12

\* The mod-10 rule as the standard states it: weight 1 on the even positions
\* 0, 2, .. 10, weight 3 on the odd ones, and d12 the complement to 10.
Mod10Weight(i) == IF i % 2 = 0 THEN 1 ELSE 3

Mod10Sum(d) ==
    LET s[i \in 0..12] == IF i = 0 THEN 0 ELSE s[i - 1] + At(d, i - 1) * Mod10Weight(i - 1)
    IN  s[12]

Mod10Holds(d) == At(d, 12) = (10 - (Mod10Sum(d) % 10)) % 10

\* The 13 digits behind a returned text: the leading 0 restored for 12
\* characters.
decoded_digits(text) ==
    IF Len(text) = 12 THEN <<0>> \o text_digits(text) ELSE text_digits(text)

\* C15: whenever decode_row returns a text, its 13 digits (the leading 0
\* restored for a 12-character text) satisfy the mod-10 rule; and a row that
\* carries 13 digits failing the rule produces no text.
C15_Checksum ==
    scan.pc = "decoded" =>
        /\ scan.out.some =>
              /\ Len(decoded_digits(scan.out.v)) = 13
              /\ Mod10Holds(decoded_digits(scan.out.v))
        /\ (EanSynthesized /\ Len(scan.digits) = 13
              /\ ~Mod10Holds(text_digits(scan.digits))) => ~scan.out.some

\* C15 witness: a row synthesized from a 12-digit UPC-A text at 1 pixel per
\* module was decoded to a 12-character text, whose check digit the rule
\* accepts after the restored 0.
C15_Witness ==
    /\ scan.pc = "decoded"
    /\ EanSynthesized
    /\ scan.unit = 1
    /\ Len(scan.digits) = 12
    /\ scan.out.some
    /\ Len(scan.out.v) = 12
    /\ Mod10Holds(decoded_digits(scan.out.v))

\* C16: decode_row returns no text for a row whose start, centre or end
\* guard is not at its position, for a row in which a digit group is far
\* from every table pattern (the widths 4, 4, 4, 4), and for a row whose
\* digits fail the checksum.
C16_Rejects ==
    (/\ scan.pc = "decoded"
     /\ \/ scan.paint.guard # "none"
        \/ scan.paint.group > 0
        \/ (Len(scan.digits) = 13 /\ ~Mod10Holds(text_digits(scan.digits))))
    => ~scan.out.some

---------------------------------------------------------------------------
(* one_d/code128.rs: the Code 128 row decoder and the row synthesizer.     *)
(* Code sets are "A", "B", "C"; values are 0..105; a text is a sequence of *)
(* character codes.                                                        *)

\* CODE128_PATTERNS_STR through get_patterns: six widths for each value
\* 0..105 (103..105 = Start A/B/C)
CODE128_PATTERNS ==
    <<
       <<2, 1, 2, 2, 2, 2>>, <<2, 2, 2, 1, 2, 2>>, <<2, 2, 2, 2, 2, 1>>, <<1, 2, 1, 2, 2, 3>>, <<1, 2, 1, 3, 2, 2>>, <<1, 3, 1, 2, 2, 2>>,
       <<1, 2, 2, 2, 1, 3>>, <<1, 2, 2, 3, 1, 2>>, <<1, 3, 2, 2, 1, 2>>, <<2, 2, 1, 2, 1, 3>>, <<2, 2, 1, 3, 1, 2>>, <<2, 3, 1, 2, 1, 2>>,
       <<1, 1, 2, 2, 3, 2>>, <<1, 2, 2, 1, 3, 2>>, <<1, 2, 2, 2, 3, 1>>, <<1, 1, 3, 2, 2, 2>>, <<1, 2, 3, 1, 2, 2>>, <<1, 2, 3, 2, 2, 1>>,
       <<2, 2, 3, 2, 1, 1>>, <<2, 2, 1, 1, 3, 2>>, <<2, 2, 1, 2, 3, 1>>, <<2, 1, 3, 2, 1, 2>>, <<2, 2, 3, 1, 1, 2>>, <<3, 1, 2, 1, 3, 1>>,
       <<3, 1, 1, 2, 2, 2>>, <<3, 2, 1, 1, 2, 2>>, <<3, 2, 1, 2, 2, 1>>, <<3, 1, 2, 2, 1, 2>>, <<3, 2, 2, 1, 1, 2>>, <<3, 2, 2, 2, 1, 1>>,
       <<2, 1, 2, 1, 2, 3>>, <<2, 1, 2, 3, 2, 1>>, <<2, 3, 2, 1, 2, 1>>, <<1, 1, 1, 3, 2, 3>>, <<1, 3, 1, 1, 2, 3>>, <<1, 3, 1, 3, 2, 1>>,
       <<1, 1, 2, 3, 1, 3>>, <<1, 3, 2, 1, 1, 3>>, <<1, 3, 2, 3, 1, 1>>, <<2, 1, 1, 3, 1, 3>>, <<2, 3, 1, 1, 1, 3>>, <<2, 3, 1, 3, 1, 1>>,
       <<1, 1, 2, 1, 3, 3>>, <<1, 1, 2, 3, 3, 1>>, <<1, 3, 2, 1, 3, 1>>, <<1, 1, 3, 1, 2, 3>>, <<1, 1, 3, 3, 2, 1>>, <<1, 3, 3, 1, 2, 1>>,
       <<3, 1, 3, 1, 2, 1>>, <<2, 1, 1, 3, 3, 1>>, <<2, 3, 1, 1, 3, 1>>, <<2, 1, 3, 1, 1, 3>>, <<2, 1, 3, 3, 1, 1>>, <<2, 1, 3, 1, 3, 1>>,
       <<3, 1, 1, 1, 2, 3>>, <<3, 1, 1, 3, 2, 1>>, <<3, 3, 1, 1, 2, 1>>, <<3, 1, 2, 1, 1, 3>>, <<3, 1, 2, 3, 1, 1>>, <<3, 3, 2, 1, 1, 1>>,
       <<3, 1, 4, 1, 1, 1>>, <<2, 2, 1, 4, 1, 1>>, <<4, 3, 1, 1, 1, 1>>, <<1, 1, 1, 2, 2, 4>>, <<1, 1, 1, 4, 2, 2>>, <<1, 2, 1, 1, 2, 4>>,
       <<1, 2, 1, 4, 2, 1>>, <<1, 4, 1, 1, 2, 2>>, <<1, 4, 1, 2, 2, 1>>, <<1, 1, 2, 2, 1, 4>>, <<1, 1, 2, 4, 1, 2>>, <<1, 2, 2, 1, 1, 4>>,
       <<1, 2, 2, 4, 1, 1>>, <<1, 4, 2, 1, 1, 2>>, <<1, 4, 2, 2, 1, 1>>, <<2, 4, 1, 2, 1, 1>>, <<2, 2, 1, 1, 1, 4>>, <<4, 1, 3, 1, 1, 1>>,
       <<2, 4, 1, 1, 1, 2>>, <<1, 3, 4, 1, 1, 1>>, <<1, 1, 1, 2, 4, 2>>, <<1, 2, 1, 1, 4, 2>>, <<1, 2, 1, 2, 4, 1>>, <<1, 1, 4, 2, 1, 2>>,
       <<1, 2, 4, 1, 1, 2>>, <<1, 2, 4, 2, 1, 1>>, <<4, 1, 1, 2, 1, 2>>, <<4, 2, 1, 1, 1, 2>>, <<4, 2, 1, 2, 1, 1>>, <<2, 1, 2, 1, 4, 1>>,
       <<2, 1, 4, 1, 2, 1>>, <<4, 1, 2, 1, 2, 1>>, <<1, 1, 1, 1, 4, 3>>, <<1, 1, 1, 3, 4, 1>>, <<1, 3, 1, 1, 4, 1>>, <<1, 1, 4, 1, 1, 3>>,
       <<1, 1, 4, 3, 1, 1>>, <<4, 1, 1, 1, 1, 3>>, <<4, 1, 1, 3, 1, 1>>, <<1, 1, 3, 1, 4, 1>>, <<1, 1, 4, 1, 3, 1>>, <<3, 1, 1, 1, 4, 1>>,
       <<4, 1, 1, 1, 3, 1>>, <<2, 1, 1, 4, 1, 2>>, <<2, 1, 1, 2, 1, 4>>, <<2, 1, 1, 2, 3, 2>>
    >>

CODE128_STOP == <<2, 3, 3, 1, 1, 1, 2>>

\* Sum of a short sequence of numbers.
SeqSum(v) == window_sum(v, 1, Len(v))

\* ((w as f32) / scale).round() clamped to 1..4, scale = sum / target; the
\* quotient w * target / sum is a half only when sum is a multiple of target,
\* where the f32 operations are exact.
scale_widths(slice, target, sum) ==
    SubSeq([k \in 1..Len(slice) |->
               clamp((2 * slice[k] * target + sum) \div (2 * sum), 1, 4)],
           1, Len(slice))

scale_round(slice, target) == scale_widths(slice, target, SeqSum(slice))

\* The index adjust_sum_to changes: .rev().max_by_key is the first largest
\* element, .min_by_key the first smallest.
first_equal(v, m) ==
    CHOOSE i \in 1..Len(v) : v[i] = m /\ \A j \in 1..(i - 1) : v[j] # m

first_largest(v) ==
    first_equal(v, CHOOSE m \in {v[i] : i \in 1..Len(v)} :
                       \A i \in 1..Len(v) : v[i] <= m)

first_smallest(v) ==
    first_equal(v, CHOOSE m \in {v[i] : i \in 1..Len(v)} :
                       \A i \in 1..Len(v) : v[i] >= m)

\* adjust_sum_to with an `if` in place of the `while`: one adjustment at most.
adjust_sum_once(v, target) ==
    IF SeqSum(v) = target THEN v
    ELSE IF SeqSum(v) > target
    THEN IF v[first_largest(v)] > 1
         THEN [v EXCEPT ![first_largest(v)] = @ - 1]
         ELSE v
    ELSE IF v[first_smallest(v)] < 4
         THEN [v EXCEPT ![first_smallest(v)] = @ + 1]
         ELSE v

\* fn adjust_sum_to(v, target), and adjust_sum_to7 with the same body
RECURSIVE adjust_sum_to(_, _)
adjust_sum_to(v, target) ==
    IF SeqSum(v) = target THEN v
    ELSE IF SeqSum(v) > target
    THEN IF v[first_largest(v)] > 1
         THEN adjust_sum_to([v EXCEPT ![first_largest(v)] = @ - 1], target)
         ELSE v
    ELSE IF v[first_smallest(v)] < 4
         THEN adjust_sum_to([v EXCEPT ![first_smallest(v)] = @ + 1], target)
         ELSE v

\* normalize6 without the call of adjust_sum_to.
normalize6_unadjusted(slice) == scale_round(slice, 11)

\* fn normalize6(slice) -> [u8; 6]
normalize6(slice) == adjust_sum_to(scale_round(slice, 11), 11)

\* fn normalize7(slice) -> [u8; 7]
normalize7(slice) == adjust_sum_to(scale_round(slice, 13), 13)

\* fn patdist6(p, q) -> u32
patdist6(p, q) ==
    AbsDiff(p[1], q[1]) + AbsDiff(p[2], q[2]) + AbsDiff(p[3], q[3])
        + AbsDiff(p[4], q[4]) + AbsDiff(p[5], q[5]) + AbsDiff(p[6], q[6])

\* fn patdist7(p, q) -> u32
patdist7(p, q) ==
    AbsDiff(p[1], q[1]) + AbsDiff(p[2], q[2]) + AbsDiff(p[3], q[3])
        + AbsDiff(p[4], q[4]) + AbsDiff(p[5], q[5]) + AbsDiff(p[6], q[6])
        + AbsDiff(p[7], q[7])

\* The distances of pat to the 106 patterns, as a sequence.
code_distances(pat, patterns) ==
    SubSeq([i \in 1..106 |-> patdist6(pat, patterns[i])], 1, 106)

\* fn best_code_match(pat, patterns) -> (usize, u32): the first value of
\* least distance (the loop stops early only at distance 0)
best_at(dists, i) == <<i - 1, dists[i]>>

best_of(dists) == best_at(dists, first_smallest(dists))

best_code_match(pat, patterns) == best_of(code_distances(pat, patterns))

\* decode_row, step 2: the first window of 7 runs within distance 1 of STOP
stop_windows(rl) ==
    {i \in 0..Max(Len(rl) - 7, 0) :
        patdist7(normalize7(SubSeq(rl, i + 1, i + 7)), CODE128_STOP) <= 1}

first_window(windows) ==
    IF windows = {} THEN None
    ELSE Some(CHOOSE i \in windows : \A j \in windows : i <= j)

find_stop(rl) == first_window(stop_windows(rl))

\* decode_row, step 3: back from STOP in blocks of 6 runs, until a start
\* code.  st = [idx, vals_rev, start_set, failed].
StartSet(val) == IF val = 103 THEN "A" ELSE IF val = 104 THEN "B" ELSE "C"

RECURSIVE read_back(_, _)
read_back_step(rl, st, m) ==
    IF m[2] > 1 \/ m[1] > 105 THEN [st EXCEPT !.failed = TRUE]
    ELSE IF m[1] >= 103 THEN [st EXCEPT !.start_set = StartSet(m[1])]
    ELSE read_back(rl, [st EXCEPT !.vals_rev = Append(@, m[1]), !.idx = @ - 6])

read_back(rl, st) ==
    IF st.idx < 6 THEN st
    ELSE read_back_step(rl, st,
             best_code_match(normalize6(SubSeq(rl, st.idx - 5, st.idx)),
                             CODE128_PATTERNS))

Reverse(s) == [k \in 1..Len(s) |-> s[Len(s) + 1 - k]]

\* The value of a start code in the checksum.
StartValue(set) == IF set = "A" THEN 103 ELSE IF set = "B" THEN 104 ELSE 105

\* decode_row, step 4: (start + sum of v * (i + 1) over the payload) % 103;
\* the wrapping u32 sum cannot wrap for a payload of fewer than 2^12 values
checksum_calc(start_set, payload) ==
    (StartValue(start_set) + SeqSum([i \in 1..Len(payload) |-> payload[i] * i])) % 103

\* enum NextShift { None, A, B } is "None", "A", "B".
\* decode_values_to_text: effective_set
effective_set(set, shift) ==
    IF set = "A" /\ shift = "B" THEN "B"
    ELSE IF set = "B" /\ shift = "A" THEN "A"
    ELSE set

\* decode_values_to_text: the characters the value v adds in effective set e
emitted(e, v) ==
    IF e = "A" THEN (IF v <= 95 THEN <<v>> ELSE IF v = 102 THEN <<29>> ELSE <<>>)
    ELSE IF e = "B"
    THEN (IF v <= 95 THEN <<(v + 32) % 256>> ELSE IF v = 102 THEN <<29>> ELSE <<>>)
    ELSE (IF v = 99 THEN <<>>
          ELSE IF v <= 98 THEN <<48 + (v \div 10), 48 + (v % 10)>>
          ELSE IF v = 102 THEN <<29>> ELSE <<>>)

\* decode_values_to_text: the current set after the value v read in e
set_after(set, e, v) ==
    IF e = "A" THEN (IF v = 99 THEN "C" ELSE IF v = 100 THEN "B" ELSE set)
    ELSE IF e = "B" THEN (IF v = 99 THEN "C" ELSE IF v = 101 THEN "A" ELSE set)
    ELSE (IF v = 100 THEN "B" ELSE IF v = 101 THEN "A" ELSE set)

\* A variant of next_shift in which an armed shift stays armed; the
\* property C20_Shift does not survive it.
next_shift_kept(shift, v, set) ==
    IF shift # "None" THEN shift
    ELSE IF v = 98 THEN (IF set = "A" THEN "B" ELSE IF set = "B" THEN "A" ELSE "None")
    ELSE shift

\* decode_values_to_text: shift after a symbol; set is the current set after
\* the symbol
next_shift(shift, v, set) ==
    IF shift # "None" THEN "None"
    ELSE IF v = 98 THEN (IF set = "A" THEN "B" ELSE IF set = "B" THEN "A" ELSE "None")
    ELSE shift

\* One pass of the while loop; st = [i, set, shift, out, failed], v = vals[i]
\* and e the effective set.
RECURSIVE values_loop(_, _)
values_step(vals, st, v, e) ==
    IF v > 102 THEN [st EXCEPT !.failed = TRUE]
    ELSE values_loop(vals,
             [i |-> st.i + 1, set |-> set_after(st.set, e, v),
              shift |-> next_shift(st.shift, v, set_after(st.set, e, v)),
              out |-> st.out \o emitted(e, v), failed |-> FALSE])

values_loop(vals, st) ==
    IF st.i >= Len(vals) THEN st
    ELSE values_step(vals, st, At(vals, st.i), effective_set(st.set, st.shift))

values_result(st) == IF st.failed THEN None ELSE Some(st.out)

\* fn decode_values_to_text(vals, set) -> Option<String>
decode_values_to_text(vals, set) ==
    values_result(values_loop(vals,
        [i |-> 0, set |-> set, shift |-> "None", out |-> <<>>, failed |-> FALSE]))

\* A variant of decode_values without the checksum comparison; the property
\* C19_Checksum does not survive it.
decode_values_unchecked(values, start_set) ==
    decode_values_to_text(SubSeq(values, 1, Len(values) - 1), start_set)

\* decode_row, steps 3 to 5, for the values read back from STOP
decode_values(values, start_set) ==
    IF checksum_calc(start_set, SubSeq(values, 1, Len(values) - 1))
           # values[Len(values)]
    THEN None
    ELSE decode_values_to_text(SubSeq(values, 1, Len(values) - 1), start_set)

decode_read(st) ==
    IF st.failed \/ st.start_set = "None" \/ Len(st.vals_rev) = 0 THEN None
    ELSE decode_values(Reverse(st.vals_rev), st.start_set)

\* The locals of decode_row after step 3, None when it returned before.
read_values(rl, stop) ==
    IF ~stop.some THEN None
    ELSE IF stop.v < 6 THEN None
    ELSE Some(read_back(rl, [idx |-> stop.v, vals_rev |-> <<>>,
                             start_set |-> "None", failed |-> FALSE]))

decode_runs(rd) == IF ~rd.some THEN None ELSE decode_read(rd.v)

\* decode_row, step 1: the adaptive runs when there are 24, else the global
code128_runs(row_gray, rl1) ==
    IF Len(rl1) >= 24 THEN rl1 ELSE runs(binarize_row(row_gray))

\* pub fn decode_row(row_gray, opts) -> Option<String>
code128_decode_rl(rl) ==
    IF Len(rl) < 24 THEN None ELSE decode_runs(read_values(rl, find_stop(rl)))

code128_decode_row(row_gray, opts) ==
    IF Len(row_gray) < opts.min_modules THEN None
    ELSE code128_decode_rl(
             code128_runs(row_gray, runs(binarize_row_adaptive(row_gray))))

\* set_cur of synthesize_row_code128
synth_set(set) ==
    IF set \in {"A", "a"} THEN "A" ELSE IF set \in {"C", "c"} THEN "C" ELSE "B"

\* synthesize_row_code128, step 1: the data values, or Panic where an assert
\* fails
synth_codes(text, set) ==
    IF set = "B"
    THEN (IF \A k \in 1..Len(text) : text[k] >= 32 /\ text[k] <= 127
          THEN Val([k \in 1..Len(text) |-> text[k] - 32]) ELSE Panic)
    ELSE IF set = "A"
    THEN (IF \A k \in 1..Len(text) : text[k] <= 95 THEN Val(text) ELSE Panic)
    ELSE (IF Len(text) % 2 = 0 /\ \A k \in 1..Len(text) : text[k] >= 48 /\ text[k] <= 57
          THEN Val([k \in 1..(Len(text) \div 2) |->
                       (text[2 * k - 1] - 48) * 10 + (text[2 * k] - 48)])
          ELSE Panic)

\* synthesize_row_code128, step 2: codes with the start code in front and the
\* checksum behind
with_checksum(codes) ==
    Append(codes,
           (codes[1] + SeqSum([i \in 1..(Len(codes) - 1) |-> codes[i + 1] * i])) % 103)

\* synthesize_row_code128, step 3: quiet(10), the symbols, STOP, quiet(10)
RECURSIVE symbol_modules(_, _)
symbol_modules(codes, k) ==
    IF k > Len(codes) THEN <<>>
    ELSE CODE128_PATTERNS[codes[k] + 1] \o symbol_modules(codes, k + 1)

code128_modules(codes) == <<10>> \o symbol_modules(codes, 1) \o CODE128_STOP \o <<10>>

\* pub fn synthesize_row_code128(text, set, unit) -> Vec<u8>; the pixels are
\* made as in synthesize_ideal_row
synth_row(codes, set, unit) ==
    IF ~codes.ok THEN Panic
    ELSE Val(pixels_of(code128_modules(with_checksum(<<StartValue(set)>> \o codes.v)),
                       unit))

synthesize_row_code128(text, set, unit) ==
    synth_row(synth_codes(text, synth_set(set)), synth_set(set), unit)

---------------------------------------------------------------------------
(* The Code 128 harness: a row is synthesized from (text, set), or printed *)
(* from a code sequence the synthesizer would not emit, and decoded.       *)

\* (text, set) pairs given to the synthesizer: "V", "#V", "AB", "a~",
\* "HELLO" in set B; "6", "+", "A1" and the control characters 0, 95 in set
\* A; "", "99", "98", "0123", "123456" in set C; and two pairs outside the
\* synthesizer's domain.
Code128Inputs ==
    { [text |-> <<86>>, set |-> "B"], [text |-> <<35, 86>>, set |-> "B"],
      [text |-> <<65, 66>>, set |-> "B"], [text |-> <<97, 126>>, set |-> "B"],
      [text |-> <<72, 69, 76, 76, 79>>, set |-> "B"],
      [text |-> <<54>>, set |-> "A"], [text |-> <<43>>, set |-> "A"],
      [text |-> <<65, 49>>, set |-> "A"], [text |-> <<0, 95>>, set |-> "A"],
      [text |-> <<>>, set |-> "C"], [text |-> <<57, 57>>, set |-> "C"],
      [text |-> <<57, 56>>, set |-> "C"], [text |-> <<48, 49, 50, 51>>, set |-> "C"],
      [text |-> <<49, 50, 51, 52, 53, 54>>, set |-> "C"],
      [text |-> <<31>>, set |-> "B"], [text |-> <<49, 50, 51>>, set |-> "C"] }

\* Ways a printed row differs from the synthesized one: the last value before
\* STOP is the checksum plus delta, or (bare) the data symbols come before
\* the start code, which is followed by STOP at once.
PrintKinds ==
    {[bare |-> FALSE, delta |-> d] : d \in {1, 51}}
    \cup {[bare |-> TRUE, delta |-> 0]}

\* The code sequence of a printed row, from the synthesizer's sequence.
printed_codes(codes, kind) ==
    IF kind.bare
    THEN SubSeq(codes, 2, Len(codes) - 1) \o <<codes[Len(codes)], codes[1]>>
    ELSE [codes EXCEPT ![Len(codes)] = (@ + kind.delta) % 103]

NotPrinted == [bare |-> FALSE, delta |-> 0]

NoRead == [idx |-> 0, vals_rev |-> <<>>, start_set |-> "None", failed |-> TRUE]

InitCode128 ==
    /\ scan \in [pc : {"text"}, input : Code128Inputs, unit : Units,
                 print : {NotPrinted}, codes : {<<>>}, row : {<<>>},
                 read : {None}, out : {None}]
    /\ rs = Idle
    /\ fmt = Idle
    /\ walk = Idle
    /\ qr = Idle

\* synthesize_row_code128(text, set, unit); codes is its code sequence with
\* the checksum
SynthesizeCode128 ==
    /\ scan.pc = "text"
    /\ IF synthesize_row_code128(scan.input.text, scan.input.set, scan.unit).ok
       THEN scan' = [scan EXCEPT
                !.pc = "row",
                !.codes = with_checksum(
                    <<StartValue(synth_set(scan.input.set))>>
                    \o synth_codes(scan.input.text, synth_set(scan.input.set)).v),
                !.row = synthesize_row_code128(scan.input.text, scan.input.set,
                                               scan.unit).v]
       ELSE scan' = [scan EXCEPT !.pc = "panic"]
    /\ UNCHANGED <<rs, fmt, walk, qr>>

\* A row printed from another code sequence, with the synthesizer's quiet
\* zones, STOP and pixels.
PrintCode128 ==
    /\ scan.pc = "text"
    /\ synth_codes(scan.input.text, synth_set(scan.input.set)).ok
    /\ \E kind \in PrintKinds :
         scan' = [scan EXCEPT
                !.pc = "row", !.print = kind,
                !.codes = printed_codes(
                    with_checksum(
                        <<StartValue(synth_set(scan.input.set))>>
                        \o synth_codes(scan.input.text, synth_set(scan.input.set)).v),
                    kind),
                !.row = pixels_of(
                    code128_modules(printed_codes(
                        with_checksum(
                            <<StartValue(synth_set(scan.input.set))>>
                            \o synth_codes(scan.input.text,
                                           synth_set(scan.input.set)).v),
                        kind)),
                    scan.unit)]
    /\ UNCHANGED <<rs, fmt, walk, qr>>

\* The runs decode_row works on.
code128_row_runs(row_gray) ==
    code128_runs(row_gray, runs(binarize_row_adaptive(row_gray)))

\* code128::decode_row(row, &DecodeOptions::default()); read holds its locals
\* vals_rev and start_set when it got as far as the checksum
Code128Decode ==
    /\ scan.pc = "row"
    /\ scan' = [scan EXCEPT
            !.pc = "decoded",
            !.read = IF Len(scan.row) < DefaultDecodeOptions.min_modules
                        \/ Len(code128_row_runs(scan.row)) < 24
                     THEN None
                     ELSE read_values(code128_row_runs(scan.row),
                                      find_stop(code128_row_runs(scan.row))),
            !.out = code128_decode_row(scan.row, DefaultDecodeOptions)]
    /\ UNCHANGED <<rs, fmt, walk, qr>>

NextCode128 == SynthesizeCode128 \/ PrintCode128 \/ Code128Decode

SpecCode128 == InitCode128 /\ [][NextCode128]_vars

---------------------------------------------------------------------------
(* Claims on the Code 128 row decoder.                                     *)

\* C18: for every (text, set) in the synthesizer's domain, decode_row on the
\* synthesized row returns exactly the text.
C18_Code128RoundTrip ==
    (scan.pc = "decoded" /\ scan.print = NotPrinted) => scan.out = Some(scan.input.text)

\* The mod-103 rule as the standard states it: the start code counts once,
\* the i-th value after it i times.
StartCode(set) == CASE set = "A" -> 103 [] set = "B" -> 104 [] set = "C" -> 105

Mod103Sum(values, n) ==
    LET s[i \in 0..n] == IF i = 0 THEN 0 ELSE s[i - 1] + values[i] * i
    IN  s[n]

Mod103Holds(set, values) ==
    /\ Len(values) >= 1
    /\ values[Len(values)]
         = (StartCode(set) + Mod103Sum(values, Len(values) - 1)) % 103

\* C19: decode_row returns a text only if it read a start code and, between
\* it and STOP, values [v1..vn, c] with c = (start + sum of v_i * i) mod 103;
\* values with another last value, and a start code with nothing between it
\* and STOP, give no text.
C19_Checksum ==
    scan.pc = "decoded" =>
        /\ scan.out.some =>
              /\ scan.read.some
              /\ ~scan.read.v.failed
              /\ scan.read.v.start_set \in {"A", "B", "C"}
              /\ Mod103Holds(scan.read.v.start_set, Reverse(scan.read.v.vals_rev))
        /\ (scan.read.some /\ scan.read.v.start_set \in {"A", "B", "C"}
              /\ ~Mod103Holds(scan.read.v.start_set, Reverse(scan.read.v.vals_rev)))
             => ~scan.out.some

\* C19 witness: a row printed with a last value that is not the checksum
\* was read back value by value up to its start code and gave no text.
C19_Witness ==
    /\ scan.pc = "decoded"
    /\ ~scan.print.bare
    /\ scan.print.delta = 51
    /\ scan.read.some
    /\ ~scan.read.v.failed
    /\ scan.read.v.start_set = "B"
    /\ Len(scan.read.v.vals_rev) = 6
    /\ <<104>> \o Reverse(scan.read.v.vals_rev) = scan.codes
    /\ ~scan.out.some

---------------------------------------------------------------------------
(* The harness of decode_values_to_text: value sequences of bounded length *)
(* over data values, SHIFT, the code-set switches, FNC1 and one value that *)
(* no set accepts.                                                         *)

MaxVals == 3

ShiftValues == {1, 65, 98, 99, 100, 101, 102, 103}

RECURSIVE ValueSeqs(_)
ValueSeqs(n) ==
    IF n = 0 THEN {<<>>}
    ELSE ValueSeqs(n - 1)
         \cup {Append(s, v) : s \in {t \in ValueSeqs(n - 1) : Len(t) = n - 1},
                              v \in ShiftValues}

InitShift ==
    /\ scan \in [pc : {"values"}, vals : ValueSeqs(MaxVals), set : {"A", "B", "C"},
                 st : {[i |-> 0]}, out : {None}]
    /\ rs = Idle
    /\ fmt = Idle
    /\ walk = Idle
    /\ qr = Idle

\* decode_values_to_text(vals, set); st holds its locals at the return
DecodeValues ==
    /\ scan.pc = "values"
    /\ scan' = [scan EXCEPT
            !.pc = "decoded",
            !.st = values_loop(scan.vals,
                       [i |-> 0, set |-> scan.set, shift |-> "None", out |-> <<>>,
                        failed |-> FALSE]),
            !.out = decode_values_to_text(scan.vals, scan.set)]
    /\ UNCHANGED <<rs, fmt, walk, qr>>

NextShift == DecodeValues

SpecShift == InitShift /\ [][NextShift]_vars

\* The other one of the sets A and B.
OtherSet(set) == IF set = "A" THEN "B" ELSE "A"

\* What the claim says of every position, as a table: before symbol i + 1
\* the current set is cur, the symbol is shifted iff the symbol before it was
\* an unshifted 98 read in set A or B, and a shifted symbol is read in the
\* other set while cur stays what the symbol itself makes of it.
ShiftTable(vals, set) ==
    LET t[i \in 0..Len(vals)] ==
            IF i = 0 THEN [cur |-> set, shifted |-> FALSE, out |-> <<>>]
            ELSE [cur |-> set_after(t[i - 1].cur,
                                    IF t[i - 1].shifted THEN OtherSet(t[i - 1].cur)
                                    ELSE t[i - 1].cur, vals[i]),
                  shifted |-> /\ ~t[i - 1].shifted
                              /\ vals[i] = 98
                              /\ t[i - 1].cur \in {"A", "B"},
                  out |-> t[i - 1].out
                          \o emitted(IF t[i - 1].shifted THEN OtherSet(t[i - 1].cur)
                                     ELSE t[i - 1].cur, vals[i])]
    IN  t[Len(vals)]

\* C20: in decode_values_to_text a SHIFT (98) read in set A or B makes
\* exactly the next symbol be read in the other set, the symbol after it is
\* read in the current set again, the shift does not change the current set,
\* and in set C the value 98 emits "98" and arms no shift.
C20_Shift ==
    (scan.pc = "decoded" /\ \A k \in 1..Len(scan.vals) : scan.vals[k] <= 102) =>
        /\ scan.out = Some(ShiftTable(scan.vals, scan.set).out)
        /\ scan.st.set = ShiftTable(scan.vals, scan.set).cur
        /\ (scan.st.shift # "None") = ShiftTable(scan.vals, scan.set).shifted
        /\ (scan.set \in {"A", "B"} /\ scan.vals = <<98, 65, 65>>) =>
              /\ scan.out = Some(emitted(OtherSet(scan.set), 65) \o emitted(scan.set, 65))
              /\ scan.st.set = scan.set
        /\ (scan.set = "C" /\ Len(scan.vals) >= 2 /\ scan.vals[1] = 98
              /\ scan.vals[2] = 65) =>
              SubSeq(scan.out.v, 1, 4) = <<57, 56, 54, 53>>

\* C20 witness: in set A the values 98, 65, 65 gave "a" (65 read in set B)
\* and then "A" (65 read in set A), and the current set is still A.
C20_Witness ==
    /\ scan.pc = "decoded"
    /\ scan.set = "A"
    /\ scan.vals = <<98, 65, 65>>
    /\ scan.out = Some(<<97, 65>>)
    /\ scan.st.set = "A"
    /\ scan.st.shift = "None"

---------------------------------------------------------------------------
(* lib.rs, core/types.rs: an image is [width, height, data] with data      *)
(* row-major and Len(data) = width * height.                               *)

\* GrayImage::row(y) = data[y * width .. y * width + width]
image_row(img, y) == SubSeq(img.data, y * img.width + 1, y * img.width + img.width)

\* GrayImage::get(x, y) = data[y * width + x]
image_get(img, x, y) == img.data[y * img.width + x + 1]

\* the column x, as find_finder_patterns collects it
image_col(img, x) == [y \in 1..img.height |-> image_get(img, x, y - 1)]

\* opts.scan_rows.max(1).min(img.height), and the same for columns
scan_count(n, size) == Min(Max(n, 1), size)

\* (i * (size - 1)) / (rows - 1).max(1)
scan_line(i, rows, size) == (i * (size - 1)) \div Max(rows - 1, 1)

---------------------------------------------------------------------------
(* one_d/mod.rs: decode_ean13_upca and decode_code128 scan rows spread     *)
(* over the height, each row forward and then reversed.                    *)

\* the forward result, or the result for the reversed row
scan_both(fwd, row, opts, decode_row(_, _)) ==
    IF fwd.some THEN fwd ELSE decode_row(Reverse(row), opts)

scan_row_at(row, y, opts, decode_row(_, _)) ==
    [r |-> scan_both(decode_row(row, opts), row, opts, decode_row), y |-> y]

\* the rows 0..rows-1 of the loop with their results, in order
scan_image(img, opts, rows, decode_row(_, _)) ==
    SubSeq([i \in 1..rows |->
               scan_row_at(image_row(img, scan_line(i - 1, rows, img.height)),
                           scan_line(i - 1, rows, img.height), opts, decode_row)],
           1, rows)

scan_found(scanned) == SelectSeq(scanned, LAMBDA s : s.r.some)

\* BarcodeFormat::UPCA iff text.len() == 12
ean_barcodes(found) ==
    [k \in 1..Len(found) |->
        [format |-> IF Len(found[k].r.v) = 12 THEN "UPCA" ELSE "EAN13",
         text |-> found[k].r.v, row |-> found[k].y]]

\* pub fn decode_ean13_upca(img, opts) -> Vec<Barcode>
decode_ean13_upca(img, opts) ==
    ean_barcodes(scan_found(
        scan_image(img, opts, scan_count(opts.scan_rows, img.height),
                   ean13_decode_row)))

code128_barcodes(found) ==
    [k \in 1..Len(found) |->
        [format |-> "Code128", text |-> found[k].r.v, row |-> found[k].y]]

\* pub fn decode_code128(img, opts) -> Vec<Barcode>
decode_code128(img, opts) ==
    code128_barcodes(scan_found(
        scan_image(img, opts, scan_count(opts.scan_rows, img.height),
                   code128_decode_row)))

---------------------------------------------------------------------------
(* qr/finder.rs: the scans of find_finder_patterns up to the colour test   *)
(* of a window of five runs.                                               *)

\* impl Default for QrOptions
DefaultQrOptions == [scan_lines |-> 24]

\* color_at(idx): true = black
color_at(starts_black, idx) ==
    IF starts_black THEN idx % 2 = 0 ELSE idx % 2 = 1

\* rb.first().copied().unwrap_or(false)
first_black(rb) == IF Len(rb) = 0 THEN FALSE ELSE rb[1]

\* the window positions r0 in 0..rl.len().saturating_sub(4) with the colours
\* B-W-B-W-B
finder_windows(rb, rl) ==
    {r0 \in 0..(Max(Len(rl), 4) - 5) :
        /\ color_at(first_black(rb), r0)
        /\ ~color_at(first_black(rb), r0 + 1)
        /\ color_at(first_black(rb), r0 + 2)
        /\ ~color_at(first_black(rb), r0 + 3)
        /\ color_at(first_black(rb), r0 + 4)}

line_windows(rb) == finder_windows(rb, runs(rb))

\* the scanned rows and columns that hold a window which is_finder_ratio is
\* asked about; without one cands stays empty
has_finder_window(img, opts) ==
    \/ \E i \in 0..(scan_count(opts.scan_lines, img.height) - 1) :
          line_windows(binarize_row_adaptive(
              image_row(img, scan_line(i, scan_count(opts.scan_lines, img.height),
                                       img.height)))) # {}
    \/ \E j \in 0..(scan_count(opts.scan_lines, img.width) - 1) :
          line_windows(binarize_row_adaptive(
              image_col(img, scan_line(j, scan_count(opts.scan_lines, img.width),
                                       img.width)))) # {}

---------------------------------------------------------------------------
(* api.rs: Pipeline::decode_all.                                           *)

\* impl Default for PipelineOptions, with the three enable flags as given
PipelineOptions(ean, c128, qrcode) ==
    [enable_ean13_upca |-> ean, enable_code128 |-> c128, enable_qr |-> qrcode]

\* what the QR stage may push: the text of a decoded symbol
QrTexts == {<<>>, <<72, 69, 76, 76, 79>>}

\* a variant of the QR stage that does not stop when no finder is found
try_decode_qr_anyway(img) == {None} \cup {Some(t) : t \in QrTexts}

\* try_decode_qr_v1_all_levels_with_correction(img): None when cands is empty
\* (finders.len() < 3). Once a window reaches is_finder_ratio the result
\* depends on the f32 ratio test, the clustering and the sampling of the
\* grid, which are left open here: the stage may return None or a symbol.
try_decode_qr_v1_all_levels_with_correction(img) ==
    IF ~has_finder_window(img, DefaultQrOptions) THEN {None}
    ELSE {None} \cup {Some(t) : t \in QrTexts}

\* DecodedSymbol::new(symbology, b.text) ... with("row", b.row)
symbols_of(barcodes, symbology) ==
    [k \in 1..Len(barcodes) |->
        [symbology |-> symbology, text |-> barcodes[k].text,
         extras |-> <<barcodes[k].row>>]]

qr_symbols(q) ==
    IF q.some THEN <<[symbology |-> "QR", text |-> q.v, extras |-> <<>>]>> ELSE <<>>

\* the positions retain() keeps: the first of every (symbology, text)
dedup_kept(items) ==
    SelectSeq([k \in 1..Len(items) |-> k],
              LAMBDA k : \A j \in 1..(k - 1) :
                  \/ items[j].symbology # items[k].symbology
                  \/ items[j].text # items[k].text)

dedup_pick(items, kept) == [m \in 1..Len(kept) |-> items[kept[m]]]

\* a variant that takes the text alone as the key
dedup_by_text(items) ==
    dedup_pick(items,
               SelectSeq([k \in 1..Len(items) |-> k],
                         LAMBDA k : \A j \in 1..(k - 1) : items[j].text # items[k].text))

\* fn dedup_by_sym_and_text(items)
dedup_by_sym_and_text(items) == dedup_pick(items, dedup_kept(items))

\* decode_all: the results of the enabled 1D stages, as the stages return
\* them
stage_ean(img, opts) ==
    IF opts.enable_ean13_upca THEN decode_ean13_upca(img, DefaultDecodeOptions)
    ELSE <<>>

stage_code128(img, opts) ==
    IF opts.enable_code128 THEN decode_code128(img, DefaultDecodeOptions) ELSE <<>>

stage_qr(img, opts) ==
    IF opts.enable_qr THEN try_decode_qr_v1_all_levels_with_correction(img)
    ELSE {None}

\* decode_all: out after the three stages and the dedup
decode_all_out(ean, c128, q) ==
    dedup_by_sym_and_text(symbols_of(ean, "Ean13") \o symbols_of(c128, "Code128")
                          \o qr_symbols(q))

\* pub fn decode_all(&self, img) -> Vec<DecodedSymbol>, with the lists the 1D
\* stages returned; one element per result the QR stage may give
decode_all(ean, c128, qs) ==
    {[ean |-> ean, c128 |-> c128, out |-> decode_all_out(ean, c128, q)] : q \in qs}

---------------------------------------------------------------------------
(* The pipeline harness: decode_all on empty, uniform, cut and bar code    *)
(* images under every choice of the three enable flags.                    *)

MaxHeight == 2

UniformWidths == {0, 1, 29, 30, 100}

UniformFills == {0, 128, 255}

\* the 13 digits of the EAN rows: first digit 0, 4 and 9
PipelineDigits ==
    {b \o <<ean13_check_digit(b)>> : b \in {c \in EanBodies : c[1] \in {0, 4, 9}}}

\* h copies of a row
image_of_row(row, h) ==
    [width |-> Len(row), height |-> h,
     data |-> [k \in 1..(Len(row) * h) |-> row[((k - 1) % Len(row)) + 1]]]

\* the rows one under the other, the shorter ones continued in white
image_of_rows(rows, w) ==
    [width |-> w, height |-> Len(rows),
     data |-> [k \in 1..(w * Len(rows)) |->
                 IF ((k - 1) % w) + 1 <= Len(rows[((k - 1) \div w) + 1])
                 THEN rows[((k - 1) \div w) + 1][((k - 1) % w) + 1]
                 ELSE 255]]

ean_row(digits) == synthesize_ideal_row(digits_text(digits), 1)

hello_row == synthesize_row_code128(<<72, 69, 76, 76, 79>>, "B", 1).v

\* What the image shows (kind, digits) and the image.
PipelineInputs ==
    {[kind |-> "uniform", digits |-> <<>>,
      img |-> [width |-> w, height |-> h, data |-> [k \in 1..(w * h) |-> f]]] :
        w \in UniformWidths, h \in 0..MaxHeight, f \in UniformFills}
    \cup {[kind |-> "ean", digits |-> d, img |-> image_of_row(ean_row(d), h)] :
            d \in PipelineDigits, h \in 1..MaxHeight}
    \cup {[kind |-> "ean", digits |-> d,
           img |-> image_of_row(Reverse(ean_row(d)), h)] :
            d \in PipelineDigits, h \in 1..MaxHeight}
    \cup {[kind |-> "upc_text", digits |-> ean13_of_text(SubSeq(d, 2, 13)),
           img |-> image_of_row(
                       synthesize_ideal_row(digits_text(SubSeq(d, 2, 13)), 1), 1)] :
            d \in PipelineDigits}
    \cup {[kind |-> "cut", digits |-> d,
           img |-> image_of_row(SubSeq(ean_row(d), 1, 29), h)] :
            d \in PipelineDigits, h \in 1..MaxHeight}
    \cup {[kind |-> "code128", digits |-> <<>>, img |-> image_of_row(hello_row, h)] :
            h \in 1..MaxHeight}
    \cup {[kind |-> "stack", digits |-> d,
           img |-> image_of_rows(<<ean_row(d), hello_row>>,
                                 Max(Len(ean_row(d)), Len(hello_row)))] :
            d \in PipelineDigits}
    \cup {[kind |-> "stack", digits |-> d,
           img |-> image_of_rows(<<hello_row, ean_row(d)>>,
                                 Max(Len(ean_row(d)), Len(hello_row)))] :
            d \in PipelineDigits}

InitPipeline ==
    /\ scan \in [pc : {"image"}, input : PipelineInputs,
                 opts : {PipelineOptions(e, c, q) : e \in BOOLEAN, c \in BOOLEAN,
                                                    q \in BOOLEAN},
                 ean : {<<>>}, c128 : {<<>>}, out : {<<>>}]
    /\ rs = Idle
    /\ fmt = Idle
    /\ walk = Idle
    /\ qr = Idle

\* Pipeline::decode_all(img); ean and c128 hold what the 1D stages returned
DecodeAll ==
    /\ scan.pc = "image"
    /\ scan' \in {[scan EXCEPT !.pc = "decoded", !.ean = r.ean, !.c128 = r.c128,
                               !.out = r.out] :
                    r \in decode_all(stage_ean(scan.input.img, scan.opts),
                                     stage_code128(scan.input.img, scan.opts),
                                     stage_qr(scan.input.img, scan.opts))}
    /\ UNCHANGED <<rs, fmt, walk, qr>>

NextPipeline == DecodeAll

SpecPipeline == InitPipeline /\ [][NextPipeline]_vars

AllEnabled(opts) == opts.enable_ean13_upca /\ opts.enable_code128 /\ opts.enable_qr

AllPixels(img, f) == \A k \in 1..Len(img.data) : img.data[k] = f

\* C13: with all symbologies enabled decode_all returns an empty list for
\* an image of width 0 or height 0, for an all-white and for an all-black
\* image; rows shorter than min_modules pixels yield no 1D result.
C13_EmptyResults ==
    scan.pc = "decoded" =>
        /\ (AllEnabled(scan.opts)
              /\ (\/ scan.input.img.width = 0
                  \/ scan.input.img.height = 0
                  \/ AllPixels(scan.input.img, 255)
                  \/ AllPixels(scan.input.img, 0)))
             => scan.out = <<>>
        /\ scan.input.img.width < DefaultDecodeOptions.min_modules
             => /\ scan.ean = <<>>
                /\ scan.c128 = <<>>
                /\ \A k \in 1..Len(scan.out) : scan.out[k].symbology = "QR"

\* C13 witness: an all-white image of 100 by 2 pixels went through all three
\* stages and the list is empty.
C13_Witness ==
    /\ scan.pc = "decoded"
    /\ AllEnabled(scan.opts)
    /\ scan.input.img.width = 100
    /\ scan.input.img.height = 2
    /\ AllPixels(scan.input.img, 255)
    /\ scan.out = <<>>


\* The results of decode_ean13_upca for an image that shows the 13 digits
\* input.digits: UPCA with the 12 digits after a first digit 0, EAN13 with
\* all 13 otherwise.
UpcaBarcodes ==
    \A k \in 1..Len(scan.ean) :
        IF scan.input.digits[1] = 0
        THEN /\ scan.ean[k].format = "UPCA"
             /\ scan.ean[k].text = digits_text(SubSeq(scan.input.digits, 2, 13))
        ELSE /\ scan.ean[k].format = "EAN13"
             /\ scan.ean[k].text = digits_text(scan.input.digits)

\* The DecodedSymbols built from them: a symbol reported as EAN-13 has 13
\* characters, and every UPCA result is reported under a symbology of its
\* own.
UpcaSymbols ==
    /\ \A k \in 1..Len(scan.out) :
          scan.out[k].symbology = "Ean13" => Len(scan.out[k].text) = 13
    /\ \A k \in 1..Len(scan.ean) :
          scan.ean[k].format = "UPCA" =>
              \E m \in 1..Len(scan.out) :
                  /\ scan.out[m].text = scan.ean[k].text
                  /\ scan.out[m].symbology \notin {"Ean13", "Code128", "QR"}

\* C17: a decoded EAN symbol whose first digit is 0 is reported as UPC-A
\* with a 12-character text and every other one as EAN-13 with a
\* 13-character text, both by decode_ean13_upca and in the DecodedSymbols of
\* decode_all.
C17_UpcaReported ==
    (scan.pc = "decoded" /\ scan.input.kind \in {"ean", "upc_text", "stack"}) =>
        /\ UpcaBarcodes
        /\ UpcaSymbols

---------------------------------------------------------------------------
(* The harness of the last step of decode_all: dedup_by_sym_and_text on    *)
(* every list of up to MaxItems symbols over three symbologies, two texts  *)
(* and two row extras.                                                     *)

MaxItems == 3

DedupSymbols ==
    [symbology : {"Ean13", "Code128", "QR"}, text : {<<>>, <<65>>},
     extras : {<<0>>, <<1>>}]

RECURSIVE SymbolLists(_)
SymbolLists(n) ==
    IF n = 0 THEN {<<>>}
    ELSE SymbolLists(n - 1)
         \cup {Append(s, x) : s \in {t \in SymbolLists(n - 1) : Len(t) = n - 1},
                              x \in DedupSymbols}

InitDedup ==
    /\ scan \in [pc : {"items"}, items : SymbolLists(MaxItems), out : {<<>>}]
    /\ rs = Idle
    /\ fmt = Idle
    /\ walk = Idle
    /\ qr = Idle

\* dedup_by_sym_and_text(out), the value decode_all returns
Dedup ==
    /\ scan.pc = "items"
    /\ scan' = [scan EXCEPT !.pc = "deduped",
                            !.out = dedup_by_sym_and_text(scan.items)]
    /\ UNCHANGED <<rs, fmt, walk, qr>>

NextDedup == Dedup

SpecDedup == InitDedup /\ [][NextDedup]_vars

SameKey(a, b) == a.symbology = b.symbology /\ a.text = b.text

\* the positions of items that are the first occurrence of their key
FirstOccurrences(items) ==
    {k \in 1..Len(items) : \A j \in 1..(k - 1) : ~SameKey(items[j], items[k])}

\* the m-th smallest element of a set of positions
NthOf(S, m) == CHOOSE k \in S : Cardinality({j \in S : j < k}) = m - 1

\* C21: the list decode_all returns has no two entries with the same
\* (symbology, text), and it is the list of produced symbols with every later
\* duplicate removed: the entries are the first occurrences of their keys, in
\* their original order.
C21_Dedup ==
    scan.pc = "deduped" =>
        /\ \A a \in 1..Len(scan.out) : \A b \in 1..Len(scan.out) :
              SameKey(scan.out[a], scan.out[b]) => a = b
        /\ Len(scan.out) = Cardinality(FirstOccurrences(scan.items))
        /\ \A m \in 1..Len(scan.out) :
              scan.out[m] = scan.items[NthOf(FirstOccurrences(scan.items), m)]

\* C21 witness: of three symbols the first and third have the same key and
\* different rows, the second has the same text under another symbology; the
\* first two are returned.
C21_Witness ==
    /\ scan.pc = "deduped"
    /\ Len(scan.items) = 3
    /\ SameKey(scan.items[1], scan.items[3])
    /\ scan.items[1].extras # scan.items[3].extras
    /\ scan.items[2].text = scan.items[1].text
    /\ scan.items[2].symbology # scan.items[1].symbology
    /\ scan.out = <<scan.items[1], scan.items[2]>>


Is1D(sym) == sym.symbology \in {"Ean13", "Code128"}

\* C22: in the list one decode_all call returns the 1D results (EAN-13/UPC-A
\* and Code 128 together) are in ascending order of their scan row, and the
\* QR result, if any, comes after every 1D result.
C22_Order ==
    scan.pc = "decoded" =>
        \A a \in 1..Len(scan.out) : \A b \in (a + 1)..Len(scan.out) :
            /\ (Is1D(scan.out[a]) /\ Is1D(scan.out[b]))
                 => scan.out[a].extras[1] <= scan.out[b].extras[1]
            /\ Is1D(scan.out[b]) => Is1D(scan.out[a])

---------------------------------------------------------------------------
(* The harness of steps 10 and 11 of the QR branch (api.rs): the 26        *)
(* codewords of a level are corrected in place and parsed as Byte mode.    *)

\* Data codewords that declare data_len - 1 payload bytes: mode 0100, the
\* length, data_len - 2 bytes "A" and the nibble 0100 of one more byte.
LongData(data_len) ==
    <<64 + ((data_len - 1) \div 16), (((data_len - 1) % 16) * 16) + 4>>
    \o [k \in 1..(data_len - 2) |-> 20]

\* The EC bytes a conforming encoder appends to LongData of the level.
LongEc(level) ==
    CASE level = "L" -> <<159, 223, 206, 85, 249, 23, 68>>
      [] level = "M" -> <<248, 113, 200, 38, 118, 152, 15, 34, 254, 238>>
      [] level = "Q" -> <<100, 175, 195, 97, 120, 204, 64, 233, 185, 181, 27, 84, 167>>
      [] level = "H" -> <<88, 212, 244, 132, 26, 123, 38, 224, 127, 66, 105, 198, 23,
                          1, 111, 169, 201>>

\* Codeword blocks of a level: all zero, the long block, and "HELLO" at L.
LevelBlocks(level) ==
    {Zeros(26), LongData(EcSplit(level).data_len) \o LongEc(level)}
    \cup (IF level = "L" THEN {HelloBlock} ELSE {})

\* v times the product of (x - alpha^k) for k < ec_len - 1, in the last
\* ec_len bytes: an error whose syndromes are zero but for the last one.
tail_of(g, ec_len, v) ==
    SubSeq([j \in 1..ec_len |-> gf_mul(v, g[ec_len - j + 1])], 1, ec_len)

TailError(data_len, ec_len, v) ==
    Zeros(data_len) \o tail_of(generator_poly(ec_len - 1), ec_len, v)

\* the v for which the last syndrome of TailError is 1
UnitScale(data_len, ec_len) ==
    gf_inv(compute_syndromes(TailError(data_len, ec_len, 1), ec_len)[ec_len])

\* Errors laid over a block: none, one byte at either end, a tail error.
BlockErrors(data_len, ec_len) ==
    {Zeros(26)}
    \cup {[i \in 1..26 |-> IF i = pos THEN v ELSE 0] : pos \in {1, 26}, v \in XorVals}
    \cup {TailError(data_len, ec_len, v) :
            v \in {1, 90, UnitScale(data_len, ec_len)}}

XorBlock(a, b) == SubSeq([i \in 1..Len(a) |-> gf_add(a[i], b[i])], 1, Len(a))

InitBlock ==
    /\ rs \in {[pc |-> "codewords", level |-> lv, cw_orig |-> XorBlock(b, e),
                cw |-> XorBlock(b, e), res |-> "none", n |-> 0,
                rs_corrected |-> "absent", text |-> None] :
               lv \in Levels, b \in UNION {LevelBlocks(l) : l \in Levels},
               e \in UNION {BlockErrors(EcSplit(l).data_len, EcSplit(l).ec_len) :
                              l \in Levels}}
    /\ scan = Idle
    /\ fmt = Idle
    /\ walk = Idle
    /\ qr = Idle

\* The state after rs_correct_codeword_block returned r.
BlockCorrected(st, r) ==
    IF r.res = "Panic" THEN [st EXCEPT !.pc = "panic"]
    ELSE [st EXCEPT !.pc = "corrected", !.res = r.res, !.n = r.n, !.cw = r.cw,
                    !.rs_corrected = IF r.res = "Ok" THEN "true" ELSE "false"]

\* Step 10: rs_correct_codeword_block(&mut cw[..], data_len, ec_len) and the
\* extra qr.rs_corrected.
CorrectBlock ==
    /\ rs.pc = "codewords"
    /\ rs' = BlockCorrected(rs, rs_correct_codeword_block(rs.cw,
                 EcSplit(rs.level).data_len, EcSplit(rs.level).ec_len))
    /\ UNCHANGED <<fmt, walk, qr, scan>>

\* Step 11: parse_byte_mode_bits_v1_l(bytes_to_bits_msb(&cw)).
ParseBlock ==
    /\ rs.pc = "corrected"
    /\ rs' = [rs EXCEPT !.pc = "parsed",
                        !.text = parse_byte_mode_bits_v1_l(bytes_to_bits_msb(rs.cw))]
    /\ UNCHANGED <<fmt, walk, qr, scan>>

NextBlock == CorrectBlock \/ ParseBlock

SpecBlock == InitBlock /\ [][NextBlock]_vars

\* the number of positions at which two buffers differ
Differing(a, b) == Cardinality({i \in 1..Len(a) : a[i] # b[i]})

\* C24: whenever rs_correct_codeword_block returns Ok(k), all ec_len
\* syndromes of the buffer as it stands on return are zero and k is the
\* number of bytes of the buffer that differ from the input.
C24_OkSyndromes ==
    (rs.pc \in {"corrected", "parsed"} /\ rs.res = "Ok") =>
        /\ AllZero(compute_syndromes(rs.cw, EcSplit(rs.level).ec_len))
        /\ rs.n = Differing(rs.cw, rs.cw_orig)

\* C24 witness: the long block of level H was given, Ok(0) came back and the
\* buffer is the block.
C24_Witness ==
    /\ rs.pc = "corrected"
    /\ rs.level = "H"
    /\ rs.cw_orig = LongData(9) \o LongEc("H")
    /\ rs.res = "Ok"
    /\ rs.n = 0
    /\ rs.cw = rs.cw_orig


\* C26: when rs_correct_codeword_block returns Err the buffer is byte for
\* byte its input, the Byte-mode parse that follows reads the uncorrected
\* codewords, and the result carries qr.rs_corrected = "false".
C26_ErrUnchanged ==
    (rs.pc \in {"corrected", "parsed"} /\ rs.res = "Err") =>
        /\ rs.cw = rs.cw_orig
        /\ rs.rs_corrected = "false"
        /\ rs.pc = "parsed" =>
              rs.text = parse_byte_mode_bits_v1_l(bytes_to_bits_msb(rs.cw_orig))

\* C26 witness: HELLO at level L with a tail error over its EC bytes was
\* given Err, and the parse returned "HELLO" from the uncorrected codewords.
C26_Witness ==
    /\ rs.pc = "parsed"
    /\ rs.level = "L"
    /\ rs.res = "Err"
    /\ rs.cw_orig # HelloBlock
    /\ SubSeq(rs.cw_orig, 1, 19) = SubSeq(HelloBlock, 1, 19)
    /\ rs.cw = rs.cw_orig
    /\ rs.rs_corrected = "false"
    /\ rs.text = Some(<<72, 69, 76, 76, 79>>)


\* The length the Byte-mode header of a codeword block declares: the eight
\* bits that follow the four-bit mode indicator.
DeclaredLength(cw) == ((cw[1] % 16) * 16) + (cw[2] \div 16)

\* C27: at every EC level the Byte-mode parse rejects a block whose declared
\* length is greater than data_len - 2 of that level.
C27_LevelBound ==
    (rs.pc = "parsed"
        /\ DeclaredLength(rs.cw) > EcSplit(rs.level).data_len - 2) =>
        ~rs.text.some


\* Steps 4 to 8: the 26 codewords the decoder packs from a grid under the
\* mask of its format f.
grid_codewords(grid, f) ==
    pack_codewords(extract_data_bits_v1(unmask_matrix_v1(grid, f.mask)))

\* Step 9: calc, returned by rs_ec_bytes for the data part, equals the
\* received EC part exactly when the syndromes of the block are all zero.
match_iff_clean(cw, split, calc) ==
    (calc.ok /\ calc.v = SubSeq(cw, split.data_len + 1, 26))
        <=> AllZero(compute_syndromes(cw, split.ec_len))

rs_check_of(f, cw) ==
    match_iff_clean(cw, EcSplit(f.ec),
        rs_ec_bytes(SubSeq(cw, 1, EcSplit(f.ec).data_len), EcSplit(f.ec).ec_len))

\* C30: for a grid decoded with qr_verify_rs enabled, the EC bytes
\* recomputed by rs_ec_bytes equal the received ones exactly when the
\* syndromes of the 26 codewords are all zero, and a result with
\* qr.rs_match = "true" has qr.rs_corrected = "true", zero corrected bytes
\* and a confidence between 0.80 and 0.95.
C30_MatchMeansClean ==
    (qr.pc = "decoded" /\ qr.origin = "sample" /\ qr.opts.qr_verify_rs) =>
        /\ decode_v1_format_from_matrix(qr.grid).some =>
              rs_check_of(decode_v1_format_from_matrix(qr.grid),
                          grid_codewords(qr.grid, decode_v1_format_from_matrix(qr.grid)))
        /\ qr.out.res = "Some" =>
              /\ qr.out.confidence \in 80..95
              /\ qr.out.rs_match = "true" =>
                    (qr.out.rs_corrected = "true" /\ qr.out.rs_corrected_bytes = 0)


---------------------------------------------------------------------------
(* The run-length harness: runs on every boolean row of up to MaxRow       *)
(* elements.                                                               *)

MaxRow == 6

BoolRows == UNION {[1..n -> BOOLEAN] : n \in 0..MaxRow}

InitRuns ==
    /\ scan \in [pc : {"row"}, row : BoolRows, out : {<<>>}]
    /\ rs = Idle
    /\ fmt = Idle
    /\ walk = Idle
    /\ qr = Idle

\* out = runs(row)
Runs ==
    /\ scan.pc = "row"
    /\ scan' = [scan EXCEPT !.pc = "runs", !.out = runs(scan.row)]
    /\ UNCHANGED <<rs, fmt, walk, qr>>

NextRuns == Runs

SpecRuns == InitRuns /\ [][NextRuns]_vars

\* The 1-based index of the run that covers element i of the row.
RunOf(rl, i) ==
    CHOOSE k \in 1..Len(rl) :
        window_sum(rl, 1, k - 1) < i /\ i <= window_sum(rl, 1, k)

\* C25 (SpecRuns): runs of an empty row is empty; of any other row it is a
\* non-empty list of positive lengths that sum to the row length, the
\* elements of the k-th run all have the colour of the first element when k
\* is odd and the other colour when k is even, so consecutive runs are
\* maximal segments of alternating colour.
C25_Runs ==
    scan.pc = "runs" =>
        IF Len(scan.row) = 0 THEN scan.out = <<>>
        ELSE /\ Len(scan.out) > 0
             /\ \A k \in 1..Len(scan.out) : scan.out[k] >= 1
             /\ SeqSum(scan.out) = Len(scan.row)
             /\ \A i \in 1..Len(scan.row) :
                   scan.row[i] = (scan.row[1] <=> (RunOf(scan.out, i) % 2 = 1))

\* C25 witness: the runs of black, black, white, black are 2, 1, 1.
C25_Witness ==
    /\ scan.pc = "runs"
    /\ scan.row = <<TRUE, TRUE, FALSE, TRUE>>
    /\ scan.out = <<2, 1, 1>>


---------------------------------------------------------------------------
(* The symbol-matching harness of code128::decode_row: a group of six runs *)
(* is normalized and matched against the table, a window of seven runs is  *)
(* normalized and compared with STOP.                                      *)

\* Run lengths tried are 1..MaxRun pixels.
MaxRun == 4

FirstRead == [idx |-> 6, vals_rev |-> <<>>, start_set |-> "None", failed |-> FALSE]

InitGroup ==
    /\ scan \in [pc : {"group"}, slice : [1..6 -> 1..MaxRun], out : {<<>>},
                 st : {FirstRead}, stop : {None}]
            \cup [pc : {"window"}, slice : [1..7 -> 1..MaxRun], out : {<<>>},
                  st : {FirstRead}, stop : {None}]
    /\ rs = Idle
    /\ fmt = Idle
    /\ walk = Idle
    /\ qr = Idle

\* pat6 = normalize6(&rl[idx - 6..idx])
Normalize6 ==
    /\ scan.pc = "group"
    /\ scan' = [scan EXCEPT !.pc = "normalized6", !.out = normalize6(scan.slice)]
    /\ UNCHANGED <<rs, fmt, walk, qr>>

\* cand = normalize7(&rl[i..i + 7])
Normalize7 ==
    /\ scan.pc = "window"
    /\ scan' = [scan EXCEPT !.pc = "normalized7", !.out = normalize7(scan.slice)]
    /\ UNCHANGED <<rs, fmt, walk, qr>>

\* One turn of the backward walk over the six runs.
ReadBack ==
    /\ scan.pc = "normalized6"
    /\ scan' = [scan EXCEPT !.pc = "read", !.st = read_back(scan.slice, FirstRead)]
    /\ UNCHANGED <<rs, fmt, walk, qr>>

\* The STOP search over the seven runs.
FindStop ==
    /\ scan.pc = "normalized7"
    /\ scan' = [scan EXCEPT !.pc = "searched", !.stop = find_stop(scan.slice)]
    /\ UNCHANGED <<rs, fmt, walk, qr>>

NextGroup == Normalize6 \/ Normalize7 \/ ReadBack \/ FindStop

SpecGroup == InitGroup /\ [][NextGroup]_vars

InModules(v, n, target) ==
    /\ Len(v) = n
    /\ \A k \in 1..n : v[k] \in 1..4
    /\ SeqSum(v) = target

\* C28 (SpecGroup): normalize6 of six positive run lengths returns six
\* values in 1..4 whose sum is 11, and normalize7 of seven positive run
\* lengths returns seven values in 1..4 whose sum is 13.
C28_NormalizeSum ==
    /\ scan.pc \in {"normalized6", "read"} => InModules(scan.out, 6, 11)
    /\ scan.pc \in {"normalized7", "searched"} => InModules(scan.out, 7, 13)

\* C28 witness: the rounded widths of 1,1,1,1,1,4 sum to 9 and normalize6
\* returned widths that sum to 11.
C28_Witness ==
    /\ scan.pc = "normalized6"
    /\ scan.slice = <<1, 1, 1, 1, 1, 4>>
    /\ SeqSum(scale_round(scan.slice, 11)) # 11
    /\ SeqSum(scan.out) = 11

\* The value the backward walk accepted for its six runs.
AcceptedValue(st) ==
    IF st.start_set # "None" THEN StartValue(st.start_set) ELSE st.vals_rev[1]

PatternsDistinct ==
    /\ \A i \in 1..106 : SeqSum(CODE128_PATTERNS[i]) = 11
    /\ \A i \in 1..106 : \A j \in (i + 1)..106 :
          CODE128_PATTERNS[i] # CODE128_PATTERNS[j]

\* C29 (SpecGroup): a group of six runs is accepted by the backward walk
\* only if its normalized widths equal a table pattern, the accepted value
\* is the index of that pattern, the 106 patterns are pairwise distinct and
\* each sums to 11; a window of seven runs is accepted as STOP only if its
\* normalized widths equal 2,3,3,1,1,1,2.
C29_ExactOnly ==
    /\ (scan.pc = "read" /\ ~scan.st.failed) =>
          /\ scan.out = CODE128_PATTERNS[AcceptedValue(scan.st) + 1]
          /\ PatternsDistinct
    /\ (scan.pc = "searched" /\ scan.stop.some) => scan.out = CODE128_STOP

\* C29 witness: the six runs 4,2,4,4,4,4 were accepted as value 0.
C29_Witness ==
    /\ scan.pc = "read"
    /\ scan.slice = <<4, 2, 4, 4, 4, 4>>
    /\ scan.out = <<2, 1, 2, 2, 2, 2>>
    /\ ~scan.st.failed
    /\ scan.st.vals_rev = <<0>>


---------------------------------------------------------------------------
(* The options harness: decode_all under every choice of the enable flags  *)
(* and of the QR options, on an image whose scan rows are those of img and *)
(* whose QR symbol, if it shows one, is sampled as grid.                   *)

Whitelists == {{}, {"L"}, {"L", "M"}, {"Q", "H"}}

FlagOpts ==
    [enable_ean13_upca : BOOLEAN, enable_code128 : BOOLEAN, enable_qr : BOOLEAN,
     qr_verify_rs : BOOLEAN, qr_allowed_ec_levels : Whitelists]

\* A symbol of the given level carrying block under mask, as the decoder
\* reads its format.
LevelGrid(block, level, mask) ==
    SymbolGrid(block, mask, encode_format_word_masked(level, mask),
               FORMAT_READ_PATHS_V1)

FlagGrids ==
    {None, Some(LevelGrid(HelloBlock, "L", 0)),
     Some(LevelGrid(LongData(16) \o LongEc("M"), "M", 2)),
     Some(LevelGrid(LongData(9) \o LongEc("H"), "H", 5)),
     Some(LevelGrid(Zeros(26), "Q", 1))}

FlagImages ==
    {[width |-> 30, height |-> 1, data |-> [k \in 1..30 |-> 255]],
     image_of_rows(<<ean_row(<<4, 0, 0, 6, 3, 8, 1, 3, 3, 3, 9, 3, 1>>), hello_row>>,
                   Max(95, Len(hello_row)))}

InitFlags ==
    /\ scan \in [pc : {"image"}, img : FlagImages, grid : FlagGrids,
                 opts : FlagOpts, out : {<<>>}]
    /\ rs = Idle
    /\ fmt = Idle
    /\ walk = Idle
    /\ qr = Idle

\* Step 3 of decode_all on the sampled grid.
stage_qr_grid(grid, opts) ==
    IF opts.enable_qr /\ grid.some THEN try_decode_qr_v1(grid.v, opts) ELSE QrNone

\* out.push(qr)
qr_symbol_of(q) ==
    IF q.res = "Some"
    THEN <<[symbology |-> "QR", text |-> q.text, extras |-> <<q.ec>>]>>
    ELSE <<>>

\* The harness after the three stages returned ean, c128 and q.
DecodedAll(st, ean, c128, q) ==
    IF q.res = "Panic" THEN [st EXCEPT !.pc = "panic"]
    ELSE [st EXCEPT !.pc = "decoded",
                    !.out = dedup_by_sym_and_text(
                                symbols_of(ean, "Ean13") \o symbols_of(c128, "Code128")
                                \o qr_symbol_of(q))]

\* Pipeline::decode_all(img)
DecodeAllOpts ==
    /\ scan.pc = "image"
    /\ scan' = DecodedAll(scan, stage_ean(scan.img, scan.opts),
                          stage_code128(scan.img, scan.opts),
                          stage_qr_grid(scan.grid, scan.opts))
    /\ UNCHANGED <<rs, fmt, walk, qr>>

NextFlags == DecodeAllOpts

SpecFlags == InitFlags /\ [][NextFlags]_vars

\* The EC level in the format information of the sampled grid is allowed.
LevelAllowed(f, allowed) == f.some /\ (allowed = {} \/ f.ec \in allowed)

\* C23 (SpecFlags): decode_all returns a symbol of a symbology only if the
\* enable flag of that symbology is true, and a QR symbol only if
\* qr_allowed_ec_levels is empty or contains the EC level decoded from the
\* format information of the grid.
C23_Enabled ==
    scan.pc = "decoded" =>
        \A k \in 1..Len(scan.out) :
            /\ scan.out[k].symbology = "Ean13" => scan.opts.enable_ean13_upca
            /\ scan.out[k].symbology = "Code128" => scan.opts.enable_code128
            /\ scan.out[k].symbology = "QR" =>
                  /\ scan.opts.enable_qr
                  /\ LevelAllowed(decode_v1_format_from_matrix(scan.grid.v),
                                  scan.opts.qr_allowed_ec_levels)
                  /\ scan.out[k].extras[1] =
                         decode_v1_format_from_matrix(scan.grid.v).ec

\* C23 witness: with the three flags set and the whitelist {L, M}, the call
\* returned an EAN-13, a Code 128 and a level M QR symbol.
C23_Witness ==
    /\ scan.pc = "decoded"
    /\ scan.opts.qr_allowed_ec_levels = {"L", "M"}
    /\ Len(scan.out) = 3
    /\ scan.out[1].symbology = "Ean13"
    /\ scan.out[2].symbology = "Code128"
    /\ scan.out[3].symbology = "QR"
    /\ scan.out[3].extras = <<"M">>

===========================================================================
